---- MODULE Spec2Model ----
(***************************************************************************)
(* PolyCue: selection of distinct colours from a candidate pool            *)
(* (src/color.rs), partition of the selection into tags (src/render.rs)    *)
(* and the regeneration pipeline of AppState (src/gui.rs).                 *)
(*                                                                         *)
(* Numbers.  An f32 is held in fixed point: an integer number of units,    *)
(* f32_scale units making 1.0.  Vectors are sequences; the code's 0-based  *)
(* index i is position i + 1 of the sequence (At).  A panic (failed        *)
(* assertion, index out of bounds, empty range given to gen_range) ends    *)
(* the call in the state "panic".                                          *)
(***************************************************************************)
EXTENDS Integers, Sequences, FiniteSets, TLC

VARIABLES
    f32_scale,      \* units per 1.0 of the f32 values of this run
    \* ---- group_colors_into_groups_monte_carlo (render.rs) ----
    colors,         \* argument: Vec<Rgb<u8>>
    labs,           \* argument: Vec<Lab>
    tag_count,      \* argument
    group_size,     \* argument
    iters,          \* argument
    dm,             \* the pairwise distance matrix, n * n entries, <<>> before it is built
    remaining,      \* indices not yet assigned
    groups,         \* Vec<Vec<usize>>
    group,          \* the group under construction
    it,             \* refinement iterations done
    part_pc,        \* position in the call
    part_ret,       \* the returned Vec<Vec<Rgb<u8>>>
    \* ---- AppState (gui.rs): the cached pool, read by the selector ----
    candidate_pool, \* Vec<Rgb<u8>>
    candidate_labs, \* Vec<Lab>
    \* ---- compute_max_threshold_and_colors_from_pool (color.rs) ----
    total,          \* argument
    samples,        \* sampling iterations done
    max_d,          \* largest sampled distance
    lo,             \* binary search bounds and best threshold, in units / ThrScale
    hi,
    best_thr,
    best_idxs,      \* the selection of the last feasible midpoint
    bs_iter,        \* binary search iterations done
    attempt,        \* shuffled orders tried at this midpoint
    sel_pc,         \* position in the call
    sel_thr,        \* the returned threshold
    sel_colors,     \* the returned Vec<Rgb<u8>>
    \* ---- AppState (gui.rs) ----
    sides,
    count,
    threshold,
    tags,           \* Vec<Vec<Rgb<u8>>>
    textures,       \* the quick previews, one drawn marker per entry
    high_res,       \* the high-resolution images, one drawn marker per entry
    save_size,
    defer_high_res,
    app_pc,         \* position in AppState::regenerate
    \* ---- reorder_bright_dark_alternating (color.rs) called on its own ----
    ord_arg,        \* the group as it was passed
    ord_colors,     \* argument: &mut Vec<Rgb<u8>>
    ord_pc,         \* position in the call
    \* ---- AppState::new (gui.rs): the construction of the pool ----
    new_i,          \* grid entries examined by retain
    new_pc,         \* position in the construction
    \* ---- tags.par_iter().map(..).collect() (gui.rs) ----
    par_kind,       \* "high_res" or "quick": the function that runs the map
    par_tags,       \* self.tags, borrowed for the call
    par_opts,       \* the render options copied into the closure
    par_slots,      \* the collected vector, one slot per item: <<>> or <<value>>
    par_claimed,    \* the items handed to a worker
    par_held,       \* per worker: the item it holds, -1 for none
    par_img,        \* per worker: <<>> or <<the value its closure returned>>
    par_order,      \* the items in the order their slots were written
    par_out,        \* self.high_res or self.textures
    par_pc,         \* position in the call
    \* ---- AppState (gui.rs): the session, update after update ----
    center_dot,
    center_dot_size_pct,
    gradient_dot,
    gradient_dot_size_pct,
    last_left_tile_w,
    max_possible_count,
    pending_regen,  \* Option<RegenKind>: <<>> or <<kind>>
    regen_deadline, \* Option<Instant>: <<>> or <<ms since the start>>
    now,            \* Instant::now(), in ms since the start
    ui_pc,          \* the handler of update that is running, "idle" between handlers
    ui_events,      \* user events handled so far
    sched_last,     \* <<kind, delay_ms>> of the schedule_regen call just made, else <<>>
    rng_draws,      \* outcomes followed of each random draw, 0 for all of them
    \* ---- draw_marker_polygon (render.rs) ----
    width,          \* argument
    height,         \* argument
    ras_sides,      \* argument `sides`
    ras_colors,     \* argument `colors`
    ras_center_dot,         \* argument `center_dot`
    ras_center_pct,         \* argument `center_dot_size_pct`
    ras_gradient_dot,       \* argument `gradient_dot`
    ras_gradient_pct,       \* argument `gradient_dot_size_pct`
    half_away,      \* how the f32 operations of this call resolve a value at a half
    verts,          \* the rounded vertices
    img,            \* the image: pixel <<x, y>> |-> <<r, g, b>>
    ras_i,          \* wedges drawn
    layers,         \* the layers applied so far, in order
    ras_pc,         \* position in the call
    \* ---- AppState (gui.rs): the right panel and the blur job ----
    right_mono_textures,
    right_first_scaled_textures,
    right_blurred_textures,  \* Vec<Option<TextureHandle>>: each slot <<>> or <<texture>>
    blur_job_id,
    blurred_rx,     \* Option<Receiver>: <<>> or <<k>>, the receiver of thread k's channel
    blur_threads,   \* the spawned threads in the order of their start
    blur_chan,      \* per thread: the messages sent and not yet received
    blur_from       \* history: per slot, the thread whose result it holds, 0 for none

part_vars == <<colors, labs, tag_count, group_size, iters, dm, remaining,
               groups, group, it, part_pc, part_ret>>

pool_vars == <<candidate_pool, candidate_labs>>

sel_vars == <<total, samples, max_d, lo, hi, best_thr, best_idxs, bs_iter,
              attempt, sel_pc, sel_thr, sel_colors>>

app_vars == <<sides, count, threshold, tags, textures, high_res, save_size,
              defer_high_res, app_pc>>

ord_vars == <<ord_arg, ord_colors, ord_pc>>

new_vars == <<new_i, new_pc>>

par_vars == <<par_kind, par_tags, par_opts, par_slots, par_claimed, par_held,
              par_img, par_order, par_out, par_pc>>

\* the variables outside the selector, the partitioner, regenerate, the
\* reordering and the construction of the pool
opt_vars == <<center_dot, center_dot_size_pct, gradient_dot, gradient_dot_size_pct,
              last_left_tile_w>>

ui_vars == <<max_possible_count, pending_regen, regen_deadline, now, ui_pc,
             ui_events, sched_last>>

ras_vars == <<width, height, ras_sides, ras_colors, ras_center_dot, ras_center_pct,
              ras_gradient_dot, ras_gradient_pct, half_away, verts, img, ras_i,
              layers, ras_pc>>

blur_vars == <<right_mono_textures, right_first_scaled_textures, right_blurred_textures,
               blur_job_id, blurred_rx, blur_threads, blur_chan, blur_from>>

more_vars == <<par_vars, opt_vars, ui_vars, rng_draws, ras_vars, blur_vars>>

core_vars == <<f32_scale, part_vars, pool_vars, sel_vars, app_vars, ord_vars>>

not_par == <<core_vars, new_vars, opt_vars, ui_vars, rng_draws, ras_vars, blur_vars>>

not_ras == <<core_vars, new_vars, par_vars, opt_vars, ui_vars, rng_draws, blur_vars>>

not_blur == <<core_vars, new_vars, par_vars, opt_vars, ui_vars, rng_draws, ras_vars>>

ext_vars == <<new_vars, more_vars>>


vars == <<f32_scale, part_vars, pool_vars, sel_vars, app_vars, ord_vars, ext_vars>>

(***************************************************************************)
(* Bounds of the model.                                                    *)
(***************************************************************************)
MaxN == 6          \* most colours handed to the partitioner
MaxFree == 4       \* inputs of up to MaxFree colours come in every order
MaxLabL == 2       \* lightness values 0..MaxLabL of the partitioner's inputs
MaxIters == 2      \* most refinement iterations followed
MaxPool == 3       \* most candidates of a pool handed to the selector
MaxLabs == 3       \* Lab values the pools are drawn from
MaxSamples == 2    \* sampling iterations followed (of SAMPLES)
MaxSearch == 3     \* binary-search iterations followed (of SEARCH_ITERS)
MaxShuffled == 4   \* vectors of up to MaxShuffled indices are shuffled into every order
MaxGroup == 4      \* longest group handed to the reordering
MaxPalette == 4    \* colours the groups of the reordering are drawn from
AppPool == 6       \* candidates of the application's pool (the first of the filtered grid)
MaxCount == 2      \* largest count a regeneration starts with
MaxParTags == 3    \* most tags handed to a parallel map
Workers == 2       \* threads of the pool that runs a parallel map
MaxEvents == 2     \* user events of a session
MaxNow == 300      \* the clock of a session stops here, in ms
SessionDraws == 2  \* outcomes followed of each random draw of a session
MaxCanvas == 3     \* widest and highest of the small canvases
MidCanvas == 9     \* width of the middle canvas
ScenarioSize == 100  \* the square canvas of the end-to-end scenarios

(***************************************************************************)
(* Program constants.                                                      *)
(***************************************************************************)
EPSILON_INV == 8388608     \* 1 / f32::EPSILON = 2^23
INFINITY == 1073741823     \* f32::INFINITY: above every finite value of the model
SAMPLES == 512             \* for _ in 0..512
SEARCH_ITERS == 14         \* for _ in 0..14
ATTEMPTS == 4              \* for _ in 0..4

\* thresholds are held in units / 2^14, so that the 14 midpoints are exact
ThrScale == 2 ^ SEARCH_ITERS

\* ------------------------------------------------------------------------
\* Helpers on vectors
\* ------------------------------------------------------------------------
At(s, i) == s[i + 1]

Min2(a, b) == IF a < b THEN a ELSE b

Max2(a, b) == IF a > b THEN a ELSE b

Range0(n) == [k \in 1..n |-> k - 1]

\* the elements of a sequence
Members(sq) == {sq[k] : k \in 1..Len(sq)}

\* the outcomes of rng.gen_range(0..n) that are followed
gen_range(n) ==
    IF rng_draws = 0 THEN 0..(n - 1) ELSE 0..(Min2(n, rng_draws) - 1)

SetAt(s, i, v) == [s EXCEPT ![i + 1] = v]

\* f32 addition with INFINITY absorbing
AddF(a, b) == IF a >= INFINITY \/ b >= INFINITY THEN INFINITY ELSE a + b

\* the largest r of lo..hi with r * r <= x
RECURSIVE ISqrtIn(_, _, _)
ISqrtIn(x, lo_r, hi_r) ==
    IF lo_r >= hi_r THEN lo_r
    ELSE LET mid == (lo_r + hi_r + 1) \div 2
         IN  IF mid * mid <= x THEN ISqrtIn(x, mid, hi_r) ELSE ISqrtIn(x, lo_r, mid - 1)

\* square root, rounded down to the unit
ISqrt(x) == ISqrtIn(x, 0, Min2(x, 46340))

\* ------------------------------------------------------------------------
\* color.rs
\* ------------------------------------------------------------------------
delta_e(a, b) ==
    LET dl == a[1] - b[1]
        da == a[2] - b[2]
        db == a[3] - b[3]
    IN  ISqrt(dl * dl + da * da + db * db)

pairwise_delta_matrix(ls) ==
    LET n == Len(ls)
    IN  [k \in 1..(n * n) |->
            LET i == (k - 1) \div n
                j == (k - 1) % n
            IN  IF i = j THEN 0 ELSE delta_e(At(ls, i), At(ls, j))]

RECURSIVE GroupMinScan(_, _, _, _, _, _)
GroupMinScan(d, n, g, i, j, min_d) ==
    IF i >= Len(g) THEN min_d
    ELSE IF j >= Len(g) THEN GroupMinScan(d, n, g, i + 1, i + 2, min_d)
    ELSE LET x == At(d, At(g, i) * n + At(g, j))
         IN  GroupMinScan(d, n, g, i, j + 1, IF x < min_d THEN x ELSE min_d)

group_min(d, n, g) == GroupMinScan(d, n, g, 0, 1, INFINITY)

\* ------------------------------------------------------------------------
\* render.rs: group_colors_into_groups_monte_carlo
\* ------------------------------------------------------------------------

\* (mutant) the assertion only asks for enough colours
CountAtLeast(n, tc, gs) == n >= tc * gs

\* assert_eq!(n, tag_count * group_size)
CountMatches(n, tc, gs) == n = tc * gs

\* the scan for the farthest pair of remaining colours: best is <<a, b, d>>
RECURSIVE SeedScan(_, _, _, _, _, _)
SeedScan(rem, d, n, i, j, best) ==
    IF i >= Len(rem) THEN best
    ELSE IF j >= Len(rem) THEN SeedScan(rem, d, n, i + 1, i + 2, best)
    ELSE LET a == At(rem, i)
             b == At(rem, j)
             x == At(d, a * n + b)
         IN  SeedScan(rem, d, n, i, j + 1, IF x > best[3] THEN <<a, b, x>> ELSE best)

FarthestPair(rem, d, n) ==
    SeedScan(rem, d, n, 0, 1, <<At(rem, 0), At(rem, 1), -1>>)

\* min distance from c to the members of g
RECURSIVE MinToGroup(_, _, _, _, _, _)
MinToGroup(d, n, g, c, k, m) ==
    IF k >= Len(g) THEN m
    ELSE LET x == At(d, At(g, k) * n + c)
         IN  MinToGroup(d, n, g, c, k + 1, IF x < m THEN x ELSE m)

\* (mutant) the first remaining colour is taken
FirstRemaining(rem, d, n, g) == At(rem, 0)

\* the scan for the remaining colour that maximizes its min distance to g
RECURSIVE FillScan(_, _, _, _, _, _, _)
FillScan(rem, d, n, g, k, best_c, best_score) ==
    IF k >= Len(rem) THEN best_c
    ELSE LET c == At(rem, k)
             m == MinToGroup(d, n, g, c, 0, INFINITY)
         IN  IF m > best_score
             THEN FillScan(rem, d, n, g, k + 1, c, m)
             ELSE FillScan(rem, d, n, g, k + 1, best_c, best_score)

BestFill(rem, d, n, g) == FillScan(rem, d, n, g, 0, At(rem, 0), -1)

\* score_group(&groups[i]) + score_group(&groups[j])
PairScore(d, n, gs, i, j) == AddF(group_min(d, n, At(gs, i)), group_min(d, n, At(gs, j)))

\* (mutant) the swap writes one side only
SwapGroupsOneSided(gs, i, ia, j, jb) ==
    SetAt(gs, i, SetAt(At(gs, i), ia, At(At(gs, j), jb)))

\* groups[i][ia] = old_j[jb]; groups[j][jb] = old_i[ia]
SwapGroups(gs, i, ia, j, jb) ==
    LET old_i == At(gs, i)
        old_j == At(gs, j)
        g1 == SetAt(gs, i, SetAt(old_i, ia, At(old_j, jb)))
    IN  SetAt(g1, j, SetAt(At(g1, j), jb, At(old_i, ia)))

\* (mutant) the comparison is turned round
AcceptSwapReversed(new_score, old_score, scale) ==
    AddF(old_score, scale \div EPSILON_INV) >= new_score

\* new_score + f32::EPSILON >= old_score, EPSILON being scale / 2^23 units
AcceptSwap(new_score, old_score, scale) ==
    AddF(new_score, scale \div EPSILON_INV) >= old_score

\* groups.into_iter().map(|g| g.into_iter().map(|idx| colors[idx]))
MapBack(gs, cs) == [g \in 1..Len(gs) |-> [k \in 1..Len(gs[g]) |-> At(cs, gs[g][k])]]

PartPanic ==
    /\ part_pc' = "panic"
    /\ UNCHANGED <<dm, remaining, groups, group, it, part_ret>>

\* entry: the assertion, then the distance matrix and the empty grouping
PartEntry ==
    /\ part_pc = "entry"
    /\ IF ~CountMatches(Len(colors), tag_count, group_size)
       THEN PartPanic
       ELSE /\ dm' = pairwise_delta_matrix(labs)
            /\ remaining' = Range0(Len(colors))
            /\ groups' = <<>>
            /\ part_pc' = "greedy"
            /\ UNCHANGED <<group, it, part_ret>>
    /\ UNCHANGED <<pool_vars, sel_vars, app_vars, ord_vars, ext_vars,
                   f32_scale, colors, labs, tag_count, group_size, iters>>

\* while !remaining.is_empty(): seed a group with the farthest pair
GreedySeed ==
    /\ part_pc = "greedy"
    /\ remaining # <<>>
    /\ IF Len(remaining) < 2
       THEN PartPanic                       \* remaining[1]
       ELSE LET best_pair == FarthestPair(remaining, dm, Len(colors))
                a == best_pair[1]
                b == best_pair[2]
            IN  /\ group' = <<a, b>>
                /\ remaining' = SelectSeq(remaining, LAMBDA x : x # a /\ x # b)
                /\ part_pc' = "fill"
                /\ UNCHANGED <<dm, groups, it, part_ret>>
    /\ UNCHANGED <<pool_vars, sel_vars, app_vars, ord_vars, ext_vars,
                   f32_scale, colors, labs, tag_count, group_size, iters>>

\* while group.len() < group_size: add the best remaining colour
GreedyFill ==
    /\ part_pc = "fill"
    /\ Len(group) < group_size
    /\ IF remaining = <<>>
       THEN PartPanic                       \* remaining[0]
       ELSE LET best_c == BestFill(remaining, dm, Len(colors), group)
            IN  /\ group' = Append(group, best_c)
                /\ remaining' = SelectSeq(remaining, LAMBDA x : x # best_c)
                /\ UNCHANGED <<dm, groups, it, part_pc, part_ret>>
    /\ UNCHANGED <<pool_vars, sel_vars, app_vars, ord_vars, ext_vars,
                   f32_scale, colors, labs, tag_count, group_size, iters>>

\* groups.push(group)
GreedyPush ==
    /\ part_pc = "fill"
    /\ Len(group) >= group_size
    /\ groups' = Append(groups, group)
    /\ group' = <<>>
    /\ part_pc' = "greedy"
    /\ UNCHANGED <<pool_vars, sel_vars, app_vars, ord_vars, ext_vars,
                   f32_scale, colors, labs, tag_count, group_size, iters,
                   dm, remaining, it, part_ret>>

\* remaining is empty: the refinement loop starts
GreedyDone ==
    /\ part_pc = "greedy"
    /\ remaining = <<>>
    /\ it' = 0
    /\ part_pc' = "refine"
    /\ UNCHANGED <<pool_vars, sel_vars, app_vars, ord_vars, ext_vars,
                   f32_scale, colors, labs, tag_count, group_size, iters,
                   dm, remaining, groups, group, part_ret>>

\* one iteration of for _ in 0..iters
RefineStep ==
    /\ part_pc = "refine"
    /\ it < Min2(iters, MaxIters)
    /\ tag_count >= 2
    /\ IF group_size = 0
       THEN PartPanic                       \* gen_range(0..0)
       ELSE \E i \in gen_range(tag_count), j0 \in gen_range(tag_count),
               ia \in gen_range(group_size), jb \in gen_range(group_size) :
            LET j == IF i = j0 THEN (j0 + 1) % tag_count ELSE j0
            IN  IF \/ i >= Len(groups) \/ j >= Len(groups)
                   \/ ia >= Len(At(groups, i)) \/ jb >= Len(At(groups, j))
                THEN PartPanic              \* index out of bounds
                ELSE LET n == Len(colors)
                         old_score == PairScore(dm, n, groups, i, j)
                         swapped == SwapGroups(groups, i, ia, j, jb)
                         new_score == PairScore(dm, n, swapped, i, j)
                     IN  /\ groups' = IF AcceptSwap(new_score, old_score, f32_scale)
                                      THEN swapped
                                      ELSE groups
                         /\ it' = it + 1
                         /\ UNCHANGED <<dm, remaining, group, part_pc, part_ret>>
    /\ UNCHANGED <<pool_vars, sel_vars, app_vars, ord_vars, ext_vars,
                   f32_scale, colors, labs, tag_count, group_size, iters>>

\* the loop ends (or breaks at tag_count < 2): map the indices back to colours
PartReturn ==
    /\ part_pc = "refine"
    /\ it >= Min2(iters, MaxIters) \/ tag_count < 2
    /\ part_ret' = MapBack(groups, colors)
    /\ part_pc' = "done"
    /\ UNCHANGED <<pool_vars, sel_vars, app_vars, ord_vars, ext_vars,
                   f32_scale, colors, labs, tag_count, group_size, iters,
                   dm, remaining, groups, group, it>>

PartIdle ==
    /\ colors = <<>>
    /\ labs = <<>>
    /\ tag_count = 0
    /\ group_size = 0
    /\ iters = 0
    /\ dm = <<>>
    /\ remaining = <<>>
    /\ groups = <<>>
    /\ group = <<>>
    /\ it = 0
    /\ part_pc = "idle"
    /\ part_ret = <<>>

PartStep ==
    \/ PartEntry
    \/ GreedySeed
    \/ GreedyFill
    \/ GreedyPush
    \/ GreedyDone
    \/ RefineStep
    \/ PartReturn

\* ------------------------------------------------------------------------
\* color.rs: pick_distinct_strict, compute_max_threshold_and_colors_from_pool
\* ------------------------------------------------------------------------

\* (mutant) the candidate is compared with the last picked colour only
CompatibleWithLast(ls, picked, i, thr) ==
    picked = <<>> \/ delta_e(At(ls, picked[Len(picked)]), At(ls, i)) * ThrScale >= thr

\* picked_labs.iter().all(|&pl| delta_e(pl, labs[i]) >= threshold)
Compatible(ls, picked, i, thr) ==
    \A k \in 1..Len(picked) : delta_e(At(ls, picked[k]), At(ls, i)) * ThrScale >= thr

RECURSIVE PickScan(_, _, _, _, _, _)
PickScan(ls, order, thr, limit, k, picked) ==
    IF k >= Len(order) THEN picked
    ELSE LET i == At(order, k)
         IN  IF Compatible(ls, picked, i, thr)
             THEN LET np == Append(picked, i)
                  IN  IF Len(np) >= limit THEN np
                      ELSE PickScan(ls, order, thr, limit, k + 1, np)
             ELSE PickScan(ls, order, thr, limit, k + 1, picked)

pick_distinct_strict(ls, order, thr, limit) == PickScan(ls, order, thr, limit, 0, <<>>)

RECURSIVE PermsOf(_)
PermsOf(S) ==
    IF S = {} THEN {<<>>}
    ELSE UNION {{<<x>> \o p : p \in PermsOf(S \ {x})} : x \in S}

\* 0..n rotated by r, read backwards if rev
Rotation(n, r, rev) ==
    [k \in 1..n |-> IF rev THEN n - 1 - ((k - 1 + r) % n) ELSE (k - 1 + r) % n]

\* the outcomes of (0..n).collect() followed by shuffle: every order of up
\* to MaxShuffled indices; of the orders of more, the rotations of 0..n and
\* of its reverse; under rng_draws, the first rotations of 0..n
Orders(n) ==
    IF rng_draws # 0 THEN {Rotation(n, r, FALSE) : r \in gen_range(n)}
    ELSE IF n <= MaxShuffled THEN PermsOf(0..(n - 1))
    ELSE {Rotation(n, r, rev) : r \in 0..(n - 1), rev \in BOOLEAN}

\* (mutant) the selection is returned as picked
TruncateNot(s, n) == s

\* Vec::truncate
Truncate(s, n) == SubSeq(s, 1, Min2(n, Len(s)))

SelIdle ==
    /\ total = 0
    /\ samples = 0
    /\ max_d = 0
    /\ lo = 0
    /\ hi = 0
    /\ best_thr = 0
    /\ best_idxs = <<>>
    /\ bs_iter = 0
    /\ attempt = 0
    /\ sel_pc = "idle"
    /\ sel_thr = 0
    /\ sel_colors = <<>>

SelPanic ==
    /\ sel_pc' = "panic"
    /\ UNCHANGED <<total, samples, max_d, lo, hi, best_thr, best_idxs, bs_iter,
                   attempt, sel_thr, sel_colors>>

\* one iteration of the sampling loop
SelSample ==
    /\ sel_pc = "sample"
    /\ samples < Min2(SAMPLES, MaxSamples)
    /\ IF Len(candidate_labs) = 0
       THEN SelPanic                        \* gen_range(0..0)
       ELSE \E i, j \in gen_range(Len(candidate_labs)) :
            LET d == delta_e(At(candidate_labs, i), At(candidate_labs, j))
            IN  /\ max_d' = IF i # j /\ d > max_d THEN d ELSE max_d
                /\ samples' = samples + 1
                /\ UNCHANGED <<total, lo, hi, best_thr, best_idxs, bs_iter,
                               attempt, sel_pc, sel_thr, sel_colors>>
    /\ UNCHANGED <<f32_scale, part_vars, pool_vars, app_vars, ord_vars, ext_vars>>

\* the sampling loop is over: lo = 0, hi = max_d
SelSampled ==
    /\ sel_pc = "sample"
    /\ samples >= Min2(SAMPLES, MaxSamples)
    /\ lo' = 0
    /\ hi' = max_d * ThrScale
    /\ best_thr' = 0
    /\ best_idxs' = <<>>
    /\ bs_iter' = 0
    /\ attempt' = 0
    /\ sel_pc' = "search"
    /\ UNCHANGED <<total, samples, max_d, sel_thr, sel_colors>>
    /\ UNCHANGED <<f32_scale, part_vars, pool_vars, app_vars, ord_vars, ext_vars>>

\* one shuffled order tried at the midpoint; a full selection ends the
\* iteration as feasible
SelAttempt ==
    /\ sel_pc = "search"
    /\ bs_iter < Min2(SEARCH_ITERS, MaxSearch)
    /\ attempt < ATTEMPTS
    /\ \E order \in Orders(Len(candidate_pool)) :
          LET mid == (lo + hi) \div 2
              picked == pick_distinct_strict(candidate_labs, order, mid, total)
          IN  IF Len(picked) >= total
              THEN /\ best_thr' = mid
                   /\ best_idxs' = picked
                   /\ lo' = mid
                   /\ bs_iter' = bs_iter + 1
                   /\ attempt' = 0
                   /\ UNCHANGED hi
              ELSE /\ attempt' = attempt + 1
                   /\ UNCHANGED <<lo, hi, best_thr, best_idxs, bs_iter>>
    /\ UNCHANGED <<total, samples, max_d, sel_pc, sel_thr, sel_colors>>
    /\ UNCHANGED <<f32_scale, part_vars, pool_vars, app_vars, ord_vars, ext_vars>>

\* no order of the four gave a full selection: the midpoint is infeasible
SelInfeasible ==
    /\ sel_pc = "search"
    /\ bs_iter < Min2(SEARCH_ITERS, MaxSearch)
    /\ attempt >= ATTEMPTS
    /\ hi' = (lo + hi) \div 2
    /\ bs_iter' = bs_iter + 1
    /\ attempt' = 0
    /\ UNCHANGED <<total, samples, max_d, lo, best_thr, best_idxs, sel_pc,
                   sel_thr, sel_colors>>
    /\ UNCHANGED <<f32_scale, part_vars, pool_vars, app_vars, ord_vars, ext_vars>>

\* (mutant) the best selection of the search is returned as it is
NeedsFinalPassNever(idxs, t) == FALSE

\* if best_idxs.len() < total
NeedsFinalPass(idxs, t) == Len(idxs) < t

\* after the search: a final pass if the best selection is short, then the
\* colour list, truncated
SelReturn ==
    /\ sel_pc = "search"
    /\ bs_iter >= Min2(SEARCH_ITERS, MaxSearch)
    /\ \E order \in Orders(Len(candidate_pool)) :
          LET idxs == IF NeedsFinalPass(best_idxs, total)
                      THEN pick_distinct_strict(candidate_labs, order, best_thr, total)
                      ELSE best_idxs
              cs == [k \in 1..Len(idxs) |-> At(candidate_pool, idxs[k])]
          IN  /\ best_idxs' = idxs
              /\ sel_colors' = Truncate(cs, total)
              /\ sel_thr' = best_thr
    /\ sel_pc' = "done"
    /\ UNCHANGED <<total, samples, max_d, lo, hi, best_thr, bs_iter, attempt>>
    /\ UNCHANGED <<f32_scale, part_vars, pool_vars, app_vars, ord_vars, ext_vars>>

SelStep ==
    \/ SelSample
    \/ SelSampled
    \/ SelAttempt
    \/ SelInfeasible
    \/ SelReturn

\* ------------------------------------------------------------------------
\* color.rs: candidate_srgb_grid, srgb_u8_to_lab, reorder_bright_dark_alternating
\* ------------------------------------------------------------------------
LEVELS == <<16, 64, 112, 160, 208, 255>>

\* candidate_srgb_grid(): r outer, g middle, b inner
candidate_srgb_grid ==
    [k \in 1..216 |-> <<LEVELS[((k - 1) \div 36) + 1],
                        LEVELS[(((k - 1) \div 6) % 6) + 1],
                        LEVELS[((k - 1) % 6) + 1]>>]

\* units per 1.0 of the Lab values computed from sRGB
LabScale == 10

\* Srgb::into_linear of v / 255 for the channel values of the grid, in 10^-6:
\* c / 12.92 up to 0.04045, ((c + 0.055) / 1.055)^2.4 above
SrgbLinear(v) ==
    CASE v = 16 -> 5182
      [] v = 64 -> 51269
      [] v = 112 -> 162029
      [] v = 160 -> 351533
      [] v = 208 -> 630757
      [] v = 255 -> 1000000

\* the largest r of lo..hi with r^3 <= x
RECURSIVE ICbrtIn(_, _, _)
ICbrtIn(x, lo_r, hi_r) ==
    IF lo_r >= hi_r THEN lo_r
    ELSE LET mid == (lo_r + hi_r + 1) \div 2
         IN  IF mid * mid * mid <= x THEN ICbrtIn(x, mid, hi_r) ELSE ICbrtIn(x, lo_r, mid - 1)

\* cube root of x <= 10^9, rounded down
ICbrt(x) == ICbrtIn(x, 0, 1000)

\* the Lab companding of t (in 10^-9), in 10^-3: cbrt(t) above 216/24389,
\* (24389/27 * t + 16) / 116 up to it
LabF(t9) ==
    IF t9 > 8856452 THEN ICbrt(t9)
    ELSE (7787 * (t9 \div 1000)) \div 1000000 + 138

\* Lab::from_color(srgb.into_linear()): linear sRGB to XYZ (D65) divided by
\* the white point, then L = 116 fy - 16, a = 500 (fx - fy), b = 200 (fy - fz)
srgb_u8_to_lab(rgb) ==
    LET r == SrgbLinear(rgb[1])
        g == SrgbLinear(rgb[2])
        b == SrgbLinear(rgb[3])
        fx == LabF(434 * r + 376 * g + 190 * b)
        fy == LabF(213 * r + 715 * g + 72 * b)
        fz == LabF(18 * r + 109 * g + 873 * b)
    IN  <<((116 * fy - 16000) * LabScale) \div 1000,
          ((fx - fy) * LabScale) \div 2,
          ((fy - fz) * LabScale) \div 5>>

\* (mutant) the sort is ascending
InsertAscending(sorted, x) ==
    LET k == Cardinality({i \in 1..Len(sorted) : sorted[i][2] <= x[2]})
    IN  SubSeq(sorted, 1, k) \o <<x>> \o SubSeq(sorted, k + 1, Len(sorted))

\* x joins a descending list behind every entry that is not darker: the sort
\* of sort_by is stable
InsertDescending(sorted, x) ==
    LET k == Cardinality({i \in 1..Len(sorted) : sorted[i][2] >= x[2]})
    IN  SubSeq(sorted, 1, k) \o <<x>> \o SubSeq(sorted, k + 1, Len(sorted))

RECURSIVE SortFrom(_, _, _)
SortFrom(with_l, k, sorted) ==
    IF k > Len(with_l) THEN sorted
    ELSE SortFrom(with_l, k + 1, InsertDescending(sorted, with_l[k]))

\* with_l.sort_by(|a, b| b.1.partial_cmp(&a.1).unwrap_or(Equal))
sort_by_lightness(with_l) == SortFrom(with_l, 1, <<>>)

\* (mutant) the dark half is not pushed
InterleaveBrights(brights, darks) ==
    [k \in 1..(2 * Len(brights)) |-> brights[(k + 1) \div 2]]

\* for i in 0..half: push brights[i], push darks[i]
Interleave(brights, darks) ==
    [k \in 1..(2 * Len(brights)) |->
        IF k % 2 = 1 THEN brights[(k + 1) \div 2] ELSE darks[k \div 2]]

\* (mutant) only the short groups are left alone
ReturnsEarlyShort(n) == n < 2

\* if n < 2 || n % 2 != 0 { return; }
ReturnsEarly(n) == n < 2 \/ n % 2 # 0

reorder_bright_dark_alternating(cs) ==
    LET n == Len(cs)
    IN  IF ReturnsEarly(n) THEN cs
        ELSE LET with_l == [k \in 1..n |-> <<cs[k], srgb_u8_to_lab(cs[k])[1]>>]
                 sorted == sort_by_lightness(with_l)
                 half == n \div 2
                 brights == [k \in 1..half |-> sorted[k][1]]
                 darks == [k \in 1..(n - half) |-> sorted[half + k][1]]
             IN  Interleave(brights, darks)

OrdIdle ==
    /\ ord_arg = <<>>
    /\ ord_colors = <<>>
    /\ ord_pc = "idle"

\* the call of reorder_bright_dark_alternating(&mut colors)
OrdCall ==
    /\ ord_pc = "call"
    /\ ord_colors' = reorder_bright_dark_alternating(ord_colors)
    /\ ord_pc' = "done"
    /\ UNCHANGED <<f32_scale, part_vars, pool_vars, sel_vars, app_vars, ord_arg, ext_vars>>

\* ------------------------------------------------------------------------
\* gui.rs: AppState
\* ------------------------------------------------------------------------
SIDES_MIN == 3                      \* self.sides.clamp(3, 6)
SIDES_MAX == 6
SIDES_DEFAULT == 4
COUNT_DEFAULT == 8
THRESHOLD_DEFAULT == 28
REFINE_ITERS == 2000                \* the iters argument of the grouping call
L_MIN == 20                         \* (20.0..=90.0).contains(&l)
L_MAX == 90
SAVE_SIZE_DEFAULT == <<1600, 1600>>
TILE_WIDTH_DEFAULT == 256
DEFER_HIGH_RES_DEFAULT == TRUE
CENTER_DOT_DEFAULT == 35
GRADIENT_DOT_DEFAULT == 35
CENTER_DOT_ENABLED_DEFAULT == TRUE
GRADIENT_DOT_ENABLED_DEFAULT == TRUE
COUNT_MIN == 1
COUNT_MAX == 100

Clamp(x, lo_x, hi_x) == IF x < lo_x THEN lo_x ELSE IF x > hi_x THEN hi_x ELSE x

Abs(v) == IF v < 0 THEN -v ELSE v

\* f32::round of num / den (den > 0): to the nearest integer; a value within
\* tol / den of a half goes away from zero or toward zero
RoundRatio(num, den, tol, away) ==
    LET a == Abs(num)
        q == a \div den
        r == a % den
        mag == IF Abs(2 * r - den) <= 2 * tol
               THEN (IF away THEN q + 1 ELSE q)
               ELSE (IF 2 * r > den THEN q + 1 ELSE q)
    IN  IF num < 0 THEN -mag ELSE mag

\* (mutant) only the lower end of the range is tested
InLightnessRangeFrom(c) == srgb_u8_to_lab(c)[1] >= L_MIN * LabScale

\* pool.retain(|&c| (20.0..=90.0).contains(&srgb_u8_to_lab(c).l))
InLightnessRange(c) ==
    LET l == srgb_u8_to_lab(c)[1]
    IN  l >= L_MIN * LabScale /\ l <= L_MAX * LabScale

FilteredPool == SelectSeq(candidate_srgb_grid, InLightnessRange)

LabsOf(cs) == [k \in 1..Len(cs) |-> srgb_u8_to_lab(cs[k])]

NewIdle ==
    /\ new_i = 0
    /\ new_pc = "idle"

\* the state of the construction once AppState::new has returned
NewBuilt ==
    /\ new_i = Len(candidate_srgb_grid)
    /\ new_pc = "done"

\* pool.retain(..): the next grid entry is kept or dropped
NewRetain ==
    /\ new_pc = "retain"
    /\ new_i < Len(candidate_srgb_grid)
    /\ candidate_pool' = IF InLightnessRange(At(candidate_srgb_grid, new_i))
                         THEN Append(candidate_pool, At(candidate_srgb_grid, new_i))
                         ELSE candidate_pool
    /\ new_i' = new_i + 1
    /\ UNCHANGED <<f32_scale, part_vars, candidate_labs, sel_vars, app_vars, ord_vars, new_pc,
                   more_vars>>

\* let labs = pool.iter().copied().map(srgb_u8_to_lab).collect(), and the
\* two vectors are stored
NewStore ==
    /\ new_pc = "retain"
    /\ new_i >= Len(candidate_srgb_grid)
    /\ candidate_labs' = LabsOf(candidate_pool)
    /\ new_pc' = "done"
    /\ UNCHANGED <<f32_scale, part_vars, candidate_pool, sel_vars, app_vars, ord_vars, new_i,
                   more_vars>>

\* what draw_marker_polygon is called with, all eight arguments
MarkerImage(w, h, n, cs, o) ==
    [width |-> w, height |-> h, sides |-> n, colors |-> cs,
     center_dot |-> o.center_dot, center_dot_size_pct |-> o.center_dot_size_pct,
     gradient_dot |-> o.gradient_dot, gradient_dot_size_pct |-> o.gradient_dot_size_pct]

\* the copies render_high_res_images and rebuild_textures_quick take of the
\* fields before their map
RenderOpts ==
    [sides |-> sides, save_size |-> save_size,
     tile_w |-> Max2(last_left_tile_w, 2),
     center_dot |-> center_dot, center_dot_size_pct |-> center_dot_size_pct,
     gradient_dot |-> gradient_dot, gradient_dot_size_pct |-> gradient_dot_size_pct]

\* the vector render_high_res_images stores
HighResOf(ts, o) ==
    [t \in 1..Len(ts) |-> MarkerImage(o.save_size[1], o.save_size[2], o.sides, ts[t], o)]

\* the vector rebuild_textures_quick stores
QuickOf(ts, o) ==
    [t \in 1..Len(ts) |-> MarkerImage(o.tile_w, o.tile_w, o.sides, ts[t], o)]

\* (mutant) the reduced count is rounded up
ReducedCountUp(achieved, n) == Max2((achieved + n - 1) \div n, 1)

\* (colors.len() / self.sides).max(1)
ReducedCount(achieved, n) == Max2(achieved \div n, 1)

\* ------------------------------------------------------------------------
\* rebuild_right_textures_quick and the blur job (gui.rs).  An image is the
\* record of what it is computed from.  A thread is the record of what its
\* closure captured and of the next index of its loop; thread k sends into
\* channel k, whose receiver is dropped when blurred_rx is assigned anew.
\* ------------------------------------------------------------------------
\* let scales: [f32; 18], in hundredths
SCALES == <<50, 40, 30, 20, 15, 14, 13, 12, 10, 9, 8, 7, 6, 5, 4, 3, 2, 1>>

\* let blur_levels: [f32; 6], in hundredths
BLUR_LEVELS == <<3, 6, 10, 16, 22, 30>>

BLUR_SRC_MIN == 16                  \* blur_dst_w.clamp(16, 128)
BLUR_SRC_MAX == 128

SIGMA_MIN == 50                     \* .clamp(0.5, 300.0), in hundredths
SIGMA_MAX == 30000

\* DynamicImage::ImageRgb8(rgb).grayscale()
Grayscale(image) == [grayscale |-> image]

\* ((base_w as f32) * s).round().max(2.0); no tile width of the model times
\* a scale lies at a half
ScaledWidth(base_w, s) == Max2(RoundRatio(base_w * s, 100, 0, TRUE), 2)

\* the image iteration i (0-based) of a thread's loop sends: the base image
\* blurred at its working size and resized to blur_dst_w
BlurredImage(t, i) ==
    [base |-> t.base, src_w |-> t.blur_src_w, dst_w |-> t.blur_dst_w,
     sigma_full |-> Clamp(t.blur_dst_w * At(BLUR_LEVELS, i), SIGMA_MIN, SIGMA_MAX)]

\* (mutant) slots that are there are kept when a job starts
KeptSlots(old) == IF old = <<>> THEN [i \in 1..Len(BLUR_LEVELS) |-> <<>>] ELSE old

\* vec![None; blur_levels.len()], which replaces the old vector
FreshSlots(old) == [i \in 1..Len(BLUR_LEVELS) |-> <<>>]

\* the history of the slots follows them: a slot that is None holds no
\* thread's result
FromOf(slots, from) ==
    [i \in 1..Len(slots) |-> IF slots[i] = <<>> \/ i > Len(from) THEN 0 ELSE from[i]]

rebuild_right_textures_quick ==
    LET o == RenderOpts
        base_w == o.tile_w
        half_w == Max2(base_w \div 2, 2)
        blur_dst_w == Max2(base_w, 2)
        blur_src_w == Clamp(blur_dst_w, BLUR_SRC_MIN, BLUR_SRC_MAX)
        k == Len(blur_threads) + 1
    IN  IF tags = <<>>
        THEN /\ right_mono_textures' = <<>>
             /\ right_first_scaled_textures' = <<>>
             /\ right_blurred_textures' = <<>>
             /\ blur_from' = <<>>
             /\ UNCHANGED <<blur_job_id, blurred_rx, blur_threads, blur_chan>>
        ELSE /\ right_mono_textures' =
                    [t \in 1..Len(tags) |->
                        Grayscale(MarkerImage(half_w, half_w, o.sides, tags[t], o))]
             /\ right_first_scaled_textures' =
                    [j \in 1..Len(SCALES) |->
                        MarkerImage(ScaledWidth(base_w, SCALES[j]),
                                    ScaledWidth(base_w, SCALES[j]), o.sides, tags[1], o)]
             /\ right_blurred_textures' = FreshSlots(right_blurred_textures)
             /\ blur_from' = FromOf(right_blurred_textures', blur_from)
             \* wrapping_add(1): the bounds keep the id far below 2^64
             /\ blur_job_id' = blur_job_id + 1
             /\ blurred_rx' = <<k>>
             /\ blur_threads' =
                    Append(blur_threads,
                           [job_id |-> blur_job_id', next |-> 0,
                            blur_dst_w |-> blur_dst_w, blur_src_w |-> blur_src_w,
                            base |-> MarkerImage(blur_src_w, blur_src_w, o.sides,
                                                 tags[1], o)])
             \* the old receiver is dropped, and what its channel held with it
             /\ blur_chan' = Append([j \in 1..Len(blur_chan) |-> <<>>], <<>>)

\* rebuild_textures_quick: the left previews, then the right panel
rebuild_textures_quick ==
    /\ textures' = QuickOf(tags, RenderOpts)
    /\ rebuild_right_textures_quick

BlurIdle ==
    /\ right_mono_textures = <<>>
    /\ right_first_scaled_textures = <<>>
    /\ right_blurred_textures = <<>>
    /\ blur_job_id = 0
    /\ blurred_rx = <<>>
    /\ blur_threads = <<>>
    /\ blur_chan = <<>>
    /\ blur_from = <<>>

AppIdle ==
    /\ sides = SIDES_DEFAULT
    /\ count = COUNT_DEFAULT
    /\ threshold = THRESHOLD_DEFAULT * LabScale * ThrScale
    /\ tags = <<>>
    /\ textures = <<>>
    /\ high_res = <<>>
    /\ save_size = SAVE_SIZE_DEFAULT
    /\ defer_high_res = DEFER_HIGH_RES_DEFAULT
    /\ app_pc = "idle"

\* regenerate, up to the call of the selector: sides is clamped, needed is
\* computed
RegenStart ==
    /\ app_pc = "start"
    /\ sides' = Clamp(sides, SIDES_MIN, SIDES_MAX)
    /\ total' = Max2(count * sides', sides')
    /\ samples' = 0
    /\ max_d' = 0
    /\ lo' = 0
    /\ hi' = 0
    /\ best_thr' = 0
    /\ best_idxs' = <<>>
    /\ bs_iter' = 0
    /\ attempt' = 0
    /\ sel_pc' = "sample"
    /\ sel_thr' = 0
    /\ sel_colors' = <<>>
    /\ app_pc' = "select"
    /\ UNCHANGED <<f32_scale, part_vars, pool_vars, count, threshold, tags, textures,
                   high_res, save_size, defer_high_res, ord_vars, ext_vars>>

\* the selector has returned: threshold, the reduction of count, the Lab
\* values, and the call of the partitioner
RegenSelected ==
    /\ app_pc = "select"
    /\ sel_pc = "done"
    /\ LET needed == total
           short == Len(sel_colors) < needed
           new_count == IF short THEN ReducedCount(Len(sel_colors), sides) ELSE count
           cs == IF short THEN Truncate(sel_colors, new_count * sides) ELSE sel_colors
       IN  /\ threshold' = sel_thr
           /\ count' = new_count
           /\ colors' = cs
           /\ labs' = LabsOf(cs)
           /\ tag_count' = new_count
           /\ group_size' = sides
           /\ iters' = REFINE_ITERS
    /\ dm' = <<>>
    /\ remaining' = <<>>
    /\ groups' = <<>>
    /\ group' = <<>>
    /\ it' = 0
    /\ part_pc' = "entry"
    /\ part_ret' = <<>>
    /\ total' = 0
    /\ samples' = 0
    /\ max_d' = 0
    /\ lo' = 0
    /\ hi' = 0
    /\ best_thr' = 0
    /\ best_idxs' = <<>>
    /\ bs_iter' = 0
    /\ attempt' = 0
    /\ sel_pc' = "idle"
    /\ sel_thr' = 0
    /\ sel_colors' = <<>>
    /\ app_pc' = "group"
    /\ UNCHANGED <<f32_scale, pool_vars, sides, tags, textures, high_res, save_size,
                   defer_high_res, ord_vars, ext_vars>>

\* the partitioner has returned: tags, reordered when sides is even
RegenGrouped ==
    /\ app_pc = "group"
    /\ part_pc = "done"
    /\ tags' = IF sides % 2 = 0
               THEN [t \in 1..Len(part_ret) |-> reorder_bright_dark_alternating(part_ret[t])]
               ELSE part_ret
    /\ colors' = <<>>
    /\ labs' = <<>>
    /\ tag_count' = 0
    /\ group_size' = 0
    /\ iters' = 0
    /\ dm' = <<>>
    /\ remaining' = <<>>
    /\ groups' = <<>>
    /\ group' = <<>>
    /\ it' = 0
    /\ part_pc' = "idle"
    /\ part_ret' = <<>>
    /\ app_pc' = "render"
    /\ UNCHANGED <<f32_scale, pool_vars, sel_vars, sides, count, threshold, textures,
                   high_res, save_size, defer_high_res, ord_vars, ext_vars>>

\* the images: high_res unless deferred, then the quick previews
RegenRender ==
    /\ app_pc = "render"
    /\ high_res' = IF defer_high_res THEN <<>> ELSE HighResOf(tags, RenderOpts)
    /\ rebuild_textures_quick
    /\ app_pc' = "done"
    /\ UNCHANGED <<f32_scale, part_vars, pool_vars, sel_vars, sides, count, threshold,
                   tags, save_size, defer_high_res, ord_vars, new_vars, par_vars,
                   opt_vars, ui_vars, rng_draws, ras_vars>>

\* a panic of a callee unwinds regenerate
RegenPanic ==
    /\ \/ app_pc = "select" /\ sel_pc = "panic"
       \/ app_pc = "group" /\ part_pc = "panic"
    /\ app_pc' = "panic"
    /\ UNCHANGED <<f32_scale, part_vars, pool_vars, sel_vars, sides, count, threshold,
                   tags, textures, high_res, save_size, defer_high_res, ord_vars, ext_vars>>

\* ------------------------------------------------------------------------
\* render_high_res_images and rebuild_textures_quick: the parallel map over
\* the tags.  The pool's threads take the items in any order; the closure
\* reads its item and its copies of the render options; an indexed collect
\* writes the value of item i into slot i.
\* ------------------------------------------------------------------------
\* the closure of the map: item i (0-based) of par_tags
MapClosure(kind, i, ts, o) ==
    IF kind = "high_res"
    THEN MarkerImage(o.save_size[1], o.save_size[2], o.sides, At(ts, i), o)
    ELSE <<i, MarkerImage(o.tile_w, o.tile_w, o.sides, At(ts, i), o)>>

\* (mutant) the values are collected in the order of their arrival
SlotOfArrival(i, arrived) == arrived

\* the slot of the collected vector that takes the value of item i
SlotOf(i, arrived) == i

ParIdle ==
    /\ par_kind = "none"
    /\ par_tags = <<>>
    /\ par_opts = <<>>
    /\ par_slots = <<>>
    /\ par_claimed = {}
    /\ par_held = [w \in 1..Workers |-> -1]
    /\ par_img = [w \in 1..Workers |-> <<>>]
    /\ par_order = <<>>
    /\ par_out = <<>>
    /\ par_pc = "idle"

\* a thread of the pool takes an item no thread has taken
ParTake(w) ==
    /\ par_pc = "map"
    /\ par_held[w] = -1
    /\ \E i \in (0..(Len(par_tags) - 1)) \ par_claimed :
          /\ par_held' = [par_held EXCEPT ![w] = i]
          /\ par_claimed' = par_claimed \cup {i}
    /\ UNCHANGED <<not_par, par_kind, par_tags, par_opts, par_slots,
                   par_img, par_order, par_out, par_pc>>

\* the thread runs the closure on its item
ParDraw(w) ==
    /\ par_pc = "map"
    /\ par_held[w] # -1
    /\ par_img[w] = <<>>
    /\ par_img' = [par_img EXCEPT ![w] = <<MapClosure(par_kind, par_held[w], par_tags, par_opts)>>]
    /\ UNCHANGED <<not_par, par_kind, par_tags, par_opts, par_slots,
                   par_claimed, par_held, par_order, par_out, par_pc>>

\* the value is written into the collected vector
ParWrite(w) ==
    /\ par_pc = "map"
    /\ par_img[w] # <<>>
    /\ par_slots' = SetAt(par_slots, SlotOf(par_held[w], Len(par_order)), par_img[w])
    /\ par_order' = Append(par_order, par_held[w])
    /\ par_held' = [par_held EXCEPT ![w] = -1]
    /\ par_img' = [par_img EXCEPT ![w] = <<>>]
    /\ UNCHANGED <<not_par, par_kind, par_tags, par_opts, par_claimed,
                   par_out, par_pc>>

\* collect() returns once every item is done: high_res is assigned, the
\* previews go through the push loop
ParCollect ==
    /\ par_pc = "map"
    /\ Len(par_order) = Len(par_tags)
    /\ par_out' = IF par_kind = "high_res"
                  THEN [k \in 1..Len(par_slots) |-> par_slots[k][1]]
                  ELSE <<>>
    /\ par_pc' = IF par_kind = "high_res" THEN "done" ELSE "push"
    /\ UNCHANGED <<not_par, par_kind, par_tags, par_opts, par_slots,
                   par_claimed, par_held, par_img, par_order>>

\* for (i, rgba) in imgs.into_iter() { .. self.textures.push(tex) }
ParPush ==
    /\ par_pc = "push"
    /\ Len(par_out) < Len(par_slots)
    /\ par_out' = Append(par_out, At(par_slots, Len(par_out))[1][2])
    /\ UNCHANGED <<not_par, par_kind, par_tags, par_opts, par_slots,
                   par_claimed, par_held, par_img, par_order, par_pc>>

ParPushed ==
    /\ par_pc = "push"
    /\ Len(par_out) >= Len(par_slots)
    /\ par_pc' = "done"
    /\ UNCHANGED <<not_par, par_kind, par_tags, par_opts, par_slots,
                   par_claimed, par_held, par_img, par_order, par_out>>

\* the fields of AppState::new that the session changes, a session not
\* having started
UiIdle ==
    /\ center_dot = CENTER_DOT_ENABLED_DEFAULT
    /\ center_dot_size_pct = CENTER_DOT_DEFAULT
    /\ gradient_dot = GRADIENT_DOT_ENABLED_DEFAULT
    /\ gradient_dot_size_pct = GRADIENT_DOT_DEFAULT
    /\ last_left_tile_w = TILE_WIDTH_DEFAULT
    /\ max_possible_count = COUNT_MAX
    /\ pending_regen = <<>>
    /\ regen_deadline = <<>>
    /\ now = 0
    /\ ui_pc = "idle"
    /\ ui_events = 0
    /\ sched_last = <<>>

\* ------------------------------------------------------------------------
\* draw_marker_polygon and draw_filled_triangle (render.rs).  The f32 values
\* are held as exact ratios of integers.  An f32 operation is off by less
\* than one part in a million, which moves a rounding to the nearest
\* integer only where the exact value is at a half (for the vertices, whose
\* cosines and sines come from a table of five decimals: within HalfTol of
\* a half); there the rounding goes away from zero or toward zero: each
\* vertex coordinate on its own, the roundings inside the triangles and the
\* blend the same way throughout one call (half_away).
\* ------------------------------------------------------------------------
WHITE == <<255, 255, 255>>

BLACK == <<0, 0, 0>>

TrigScale == 100000        \* the cosines and sines below are in units of 1 / TrigScale
HalfTol == 100             \* a vertex coordinate this near a half, in units of 1 / TrigScale, rounds either way

\* <<cos, sin>> of start_angle + angle_step * i for n sides, times TrigScale
CosSin(n, i) ==
    CASE n = 3 -> <<<<0, -100000>>, <<86603, 50000>>, <<-86603, 50000>>>>[i + 1]
      [] n = 4 -> <<<<0, -100000>>, <<100000, 0>>, <<0, 100000>>, <<-100000, 0>>>>[i + 1]
      [] n = 5 -> <<<<0, -100000>>, <<95106, -30902>>, <<58779, 80902>>,
                    <<-58779, 80902>>, <<-95106, -30902>>>>[i + 1]
      [] n = 6 -> <<<<0, -100000>>, <<86603, -50000>>, <<86603, 50000>>,
                    <<0, 100000>>, <<-86603, 50000>>, <<-86603, -50000>>>>[i + 1]

\* radius, in hundredths: ((w - 2 margin) * 0.5).min((h - 2 margin) * 0.5).max(1.0)
\* with margin = 0.08 * w.min(h)
Radius100(w, h) ==
    LET m == Min2(w, h)
    IN  Max2(Min2(50 * w - 8 * m, 50 * h - 8 * m), 100)

\* the values f32::round may give for num / den as the f32 operations
\* before it leave it
RoundOutcomes(num, den, tol) ==
    {RoundRatio(num, den, tol, away) : away \in BOOLEAN}

\* vertex i: (cx + radius * cos a, cy + radius * sin a), both rounded
VertexOutcomes(w, h, n, i) ==
    LET cs == CosSin(n, i)
        r == Radius100(w, h)
    IN  {[x |-> vx, y |-> vy] :
           vx \in RoundOutcomes(50 * w * TrigScale + r * cs[1], 100 * TrigScale, 100 * HalfTol),
           vy \in RoundOutcomes(50 * h * TrigScale + r * cs[2], 100 * TrigScale, 100 * HalfTol)}

\* the vectors `verts` may be from vertex i on
RECURSIVE VertsFrom(_, _, _, _)
VertsFrom(w, h, n, i) ==
    IF i >= n THEN {<<>>}
    ELSE {<<v>> \o rest : v \in VertexOutcomes(w, h, n, i), rest \in VertsFrom(w, h, n, i + 1)}

\* Point { x: cx.round(), y: cy.round() }: w / 2 is exact, a half goes away
\* from zero
Centroid(w, h) == [x |-> (w + 1) \div 2, y |-> (h + 1) \div 2]

\* pts.sort_by_key(|p| p.y): stable, equal keys keep the order a, b, c
SortByY(a, b, c) ==
    LET s1 == IF b.y < a.y THEN <<b, a>> ELSE <<a, b>>
    IN  IF c.y < s1[1].y THEN <<c, s1[1], s1[2]>>
        ELSE IF c.y < s1[2].y THEN <<s1[1], c, s1[2]>>
        ELSE <<s1[1], s1[2], c>>

\* interp(p0, p1, y).round() as i32
interp(p0, p1, y, away) ==
    IF p1.y = p0.y THEN p0.x
    ELSE RoundRatio(p0.x * (p1.y - p0.y) + (p1.x - p0.x) * (y - p0.y), p1.y - p0.y, 0, away)

\* (mutant) spans are cut one pixel short of the right edge
SpanEndShort(w) == w - 2

\* (mutant) xb.min(width as i32): spans may end one pixel past the right edge
SpanEndPast(w) == w

\* xb.min(width as i32 - 1)
SpanEnd(w) == w - 1

\* the pixels draw_span(y, x0, x1) writes on a canvas w wide and h high
InSpan(px, y, x0, x1, w, h) ==
    /\ px[2] = y
    /\ y >= 0
    /\ y < h
    /\ px[1] >= Max2(Min2(x0, x1), 0)
    /\ px[1] <= Min2(Max2(x0, x1), SpanEnd(w))

\* pixel px is written by draw_filled_triangle(img, a, b, c, ..)
InTriangle(px, a, b, c, w, h, away) ==
    LET pts == SortByY(a, b, c)
        p0 == pts[1]
        p1 == pts[2]
        p2 == pts[3]
        y == px[2]
    IN  \/ /\ y >= p0.y
           /\ y <= p1.y
           /\ InSpan(px, y, interp(p0, p2, y, away), interp(p0, p1, y, away), w, h)
        \/ /\ y >= p1.y + 1
           /\ y <= p2.y
           /\ InSpan(px, y, interp(p0, p2, y, away), interp(p1, p2, y, away), w, h)

\* the pixels of the canvas
Canvas(w, h) == (0..(w - 1)) \X (0..(h - 1))

\* a dot's radius in units of 1/200: (w.min(h) * pct * 0.5).max(1.0) with
\* pct = (size_pct / 100.0).clamp(0.01, 0.5)
DotRadius200(w, h, size_pct) == Max2(Min2(w, h) * Clamp(size_pct, 1, 50), 200)

\* 4 * (dx * dx + dy * dy) for dx = x - cx, dy = y - cy
Dist2x4(px, w, h) == (2 * px[1] - w) * (2 * px[1] - w) + (2 * px[2] - h) * (2 * px[2] - h)

\* the box of a dot: x0..x1 and y0..y1, clipped to the canvas
InDotBox(px, w, h, r200) ==
    /\ px[1] >= Max2((100 * w - r200) \div 200, 0)
    /\ px[1] <= Min2(-((-(100 * w + r200)) \div 200), w - 1)
    /\ px[2] >= Max2((100 * h - r200) \div 200, 0)
    /\ px[2] <= Min2(-((-(100 * h + r200)) \div 200), h - 1)

\* (mutant) dx * dx + dy * dy < r2
WithinRadiusStrict(px, w, h, r200) == 10000 * Dist2x4(px, w, h) < r200 * r200

\* dx * dx + dy * dy <= r2
WithinRadius(px, w, h, r200) == 10000 * Dist2x4(px, w, h) <= r200 * r200

\* dist2 / two_sigma2 in units of 1/10000, sigma = (rg * 0.7).max(0.5), for a
\* pixel within the radius (long division in two steps of 80)
GaussArg(px, w, h, r200) ==
    LET a == 10000 * Dist2x4(px, w, h)
        r2 == r200 * r200
        q1 == (a * 80) \div r2
        q2 == (((a * 80) % r2) * 80) \div r2
    IN  ((q1 * 80 + q2) * 10000) \div 6272

\* the terms t^k / k! of the exponential series from term k on, alternating
RECURSIVE ExpSeries(_, _, _)
ExpSeries(t, k, term) ==
    IF term = 0 \/ k > 12 THEN 0
    ELSE term - ExpSeries(t, k + 1, (term * t) \div (10000 * (k + 1)))

\* (-dist2 / two_sigma2).exp(), in units of 1/10000
Alpha(px, w, h, r200) == ExpSeries(GaussArg(px, w, h, r200), 0, 10000)

\* (255.0 * alpha + c0 * inv).round().clamp(0.0, 255.0) as u8
BlendChannel(c0, alpha, away) ==
    Clamp(RoundRatio(255 * alpha + c0 * (10000 - alpha), 10000, 0, away), 0, 255)

Blend(rgb, alpha, away) ==
    <<BlendChannel(rgb[1], alpha, away), BlendChannel(rgb[2], alpha, away),
      BlendChannel(rgb[3], alpha, away)>>

\* (mutant) the gradient dot is drawn before the centre dot
LayerAfterSwapped(layer, cd, gd) ==
    CASE layer = "wedges" -> (IF gd THEN "gradient" ELSE IF cd THEN "center" ELSE "done")
      [] layer = "gradient" -> (IF cd THEN "center" ELSE "done")
      [] layer = "center" -> "done"

\* the order of the layers: the wedges, `if center_dot {..}`, then
\* `if gradient_dot {..}`
LayerAfter(layer, cd, gd) ==
    CASE layer = "wedges" -> (IF cd THEN "center" ELSE IF gd THEN "gradient" ELSE "done")
      [] layer = "center" -> (IF gd THEN "gradient" ELSE "done")
      [] layer = "gradient" -> "done"

RasIdle ==
    /\ width = 0
    /\ height = 0
    /\ ras_sides = 0
    /\ ras_colors = <<>>
    /\ ras_center_dot = FALSE
    /\ ras_center_pct = 0
    /\ ras_gradient_dot = FALSE
    /\ ras_gradient_pct = 0
    /\ half_away = TRUE
    /\ verts = <<>>
    /\ img = <<>>
    /\ ras_i = 0
    /\ layers = <<>>
    /\ ras_pc = "idle"

\* from_pixel(width, height, white), the vertices and the centroid
RasSetup ==
    /\ ras_pc = "entry"
    /\ img' = [px \in Canvas(width, height) |-> WHITE]
    /\ verts' \in VertsFrom(width, height, ras_sides, 0)
    /\ ras_i' = 0
    /\ ras_pc' = "wedges"
    /\ UNCHANGED <<not_ras, width, height, ras_sides, ras_colors, ras_center_dot,
                   ras_center_pct, ras_gradient_dot, ras_gradient_pct, half_away, layers>>

\* one turn of `for i in 0..sides`: the wedge of v0, v1 and the centroid;
\* colors[i % colors.len()] panics on an empty group
RasWedge ==
    /\ ras_pc = "wedges"
    /\ ras_i < ras_sides
    /\ IF Len(ras_colors) = 0
       THEN /\ ras_pc' = "panic"
            /\ UNCHANGED <<img, ras_i, layers>>
       ELSE LET v0 == At(verts, ras_i)
                v1 == At(verts, (ras_i + 1) % ras_sides)
                color == At(ras_colors, ras_i % Len(ras_colors))
            IN  /\ img' = [px \in Canvas(width, height) |->
                             IF InTriangle(px, Centroid(width, height), v0, v1,
                                           width, height, half_away)
                             THEN color ELSE img[px]]
                /\ ras_i' = ras_i + 1
                /\ layers' = Append(layers, "wedge")
                /\ UNCHANGED ras_pc
    /\ UNCHANGED <<not_ras, width, height, ras_sides, ras_colors, ras_center_dot,
                   ras_center_pct, ras_gradient_dot, ras_gradient_pct, half_away, verts>>

\* the wedges are drawn
RasWedgesDone ==
    /\ ras_pc = "wedges"
    /\ ras_i >= ras_sides
    /\ ras_pc' = LayerAfter("wedges", ras_center_dot, ras_gradient_dot)
    /\ UNCHANGED <<not_ras, width, height, ras_sides, ras_colors, ras_center_dot,
                   ras_center_pct, ras_gradient_dot, ras_gradient_pct, half_away, verts,
                   img, ras_i, layers>>

\* if center_dot { .. }: the solid black circle
RasCenterDot ==
    /\ ras_pc = "center"
    /\ LET r == DotRadius200(width, height, ras_center_pct)
       IN  img' = [px \in Canvas(width, height) |->
                     IF InDotBox(px, width, height, r) /\ WithinRadius(px, width, height, r)
                     THEN BLACK ELSE img[px]]
    /\ layers' = Append(layers, "center")
    /\ ras_pc' = LayerAfter("center", ras_center_dot, ras_gradient_dot)
    /\ UNCHANGED <<not_ras, width, height, ras_sides, ras_colors, ras_center_dot,
                   ras_center_pct, ras_gradient_dot, ras_gradient_pct, half_away, verts,
                   ras_i>>

\* if gradient_dot { .. }: the Gaussian fade to white
RasGradientDot ==
    /\ ras_pc = "gradient"
    /\ LET rg == DotRadius200(width, height, ras_gradient_pct)
       IN  img' = [px \in Canvas(width, height) |->
                     IF /\ InDotBox(px, width, height, rg)
                        /\ WithinRadius(px, width, height, rg)
                        /\ Alpha(px, width, height, rg) > 10
                     THEN Blend(img[px], Alpha(px, width, height, rg), half_away)
                     ELSE img[px]]
    /\ layers' = Append(layers, "gradient")
    /\ ras_pc' = LayerAfter("gradient", ras_center_dot, ras_gradient_dot)
    /\ UNCHANGED <<not_ras, width, height, ras_sides, ras_colors, ras_center_dot,
                   ras_center_pct, ras_gradient_dot, ras_gradient_pct, half_away, verts,
                   ras_i>>

\* the variables outside the five calls above are at rest, every outcome of
\* a random draw being followed
MoreIdle ==
    /\ ParIdle
    /\ UiIdle
    /\ rng_draws = 0
    /\ RasIdle
    /\ BlurIdle

\* ------------------------------------------------------------------------
\* AppState::update: the receive loop, the debounce handler and the
\* controls, one action per handler.  The fields columns, profiling,
\* preview_max_width and last_panel_width are read by no code of the model
\* and are left out.  The threads of the blur jobs take their steps in
\* SpecBlur alone; in the other specifications they are started and are
\* not scheduled, and the receive loop finds no message.
\* ------------------------------------------------------------------------
FULL_DELAY_MS == 200       \* schedule_regen(RegenKind::Full, 200)
DOT_DELAY_MS == 50         \* schedule_regen(RegenKind::ImagesOnly, 50)
RESIZE_DELAY_MS == 100     \* schedule_regen(RegenKind::ImagesOnly, 100)
TEST_TAGS == 1000          \* test_needed = 1000 * self.sides
CENTER_DOT_MIN == 1
CENTER_DOT_MAX == 50
GRADIENT_DOT_MAX == 50
TILE_WIDTH_MIN == 32       \* tile_w = (..).floor().max(32.0)

\* the clock advances in steps of TickMs
TickMs == 100

DotSizes == {CENTER_DOT_DEFAULT, CENTER_DOT_MAX}

TileWidths == {TILE_WIDTH_MIN, TILE_WIDTH_DEFAULT}

\* (mutant) the kind of the latest request is the pending one
ScheduledKindLatest(pending, kind) == <<kind>>

\* the match of schedule_regen: the pending kind after a request of `kind`
ScheduledKind(pending, kind) ==
    IF pending = <<"Full">> THEN pending
    ELSE IF kind = "Full" THEN <<"Full">>
    ELSE IF pending = <<>> THEN <<"ImagesOnly">>
    ELSE pending

\* (mutant) the deadline of the latest request stands
ScheduledDeadlineLatest(deadline, t, delay_ms) == <<t + delay_ms>>

\* the deadline after a request made at time t
ScheduledDeadline(deadline, t, delay_ms) ==
    IF deadline # <<>> THEN <<Min2(deadline[1], t + delay_ms)>> ELSE <<t + delay_ms>>

schedule_regen(kind, delay_ms) ==
    /\ pending_regen' = ScheduledKind(pending_regen, kind)
    /\ regen_deadline' = ScheduledDeadline(regen_deadline, now, delay_ms)
    /\ sched_last' = <<kind, delay_ms>>

\* the call compute_max_threshold_and_colors_from_pool(.., t)
SelCall(t) ==
    /\ total' = t
    /\ samples' = 0
    /\ max_d' = 0
    /\ lo' = 0
    /\ hi' = 0
    /\ best_thr' = 0
    /\ best_idxs' = <<>>
    /\ bs_iter' = 0
    /\ attempt' = 0
    /\ sel_pc' = "sample"
    /\ sel_thr' = 0
    /\ sel_colors' = <<>>

\* the selector's locals are dropped
SelDropped ==
    /\ total' = 0
    /\ samples' = 0
    /\ max_d' = 0
    /\ lo' = 0
    /\ hi' = 0
    /\ best_thr' = 0
    /\ best_idxs' = <<>>
    /\ bs_iter' = 0
    /\ attempt' = 0
    /\ sel_pc' = "idle"
    /\ sel_thr' = 0
    /\ sel_colors' = <<>>

\* (colors.len() / self.sides).max(1) of update_max_possible_count
MaxPossible(achieved, n) == Max2(achieved \div n, 1)

\* (mutant) update_max_possible_count keeps the selection as the pool
UiNewMaxKeepsSelection ==
    /\ ui_pc = "new"
    /\ sel_pc = "done"
    /\ max_possible_count' = MaxPossible(Len(sel_colors), sides)
    /\ candidate_pool' = Truncate(sel_colors, sides)
    /\ SelDropped
    /\ app_pc' = "start"
    /\ ui_pc' = "startup"
    /\ UNCHANGED <<f32_scale, part_vars, candidate_labs, sides, count, threshold, tags,
                   textures, high_res, save_size, defer_high_res, ord_vars, new_vars,
                   par_vars, opt_vars, pending_regen, regen_deadline, now, ui_events,
                   sched_last, rng_draws, ras_vars, blur_vars>>

\* AppState::new ends with update_max_possible_count; main calls regenerate
\* before the first update
UiNewMax ==
    /\ ui_pc = "new"
    /\ sel_pc = "done"
    /\ max_possible_count' = MaxPossible(Len(sel_colors), sides)
    /\ SelDropped
    /\ app_pc' = "start"
    /\ ui_pc' = "startup"
    /\ UNCHANGED <<f32_scale, part_vars, pool_vars, sides, count, threshold, tags,
                   textures, high_res, save_size, defer_high_res, ord_vars, new_vars,
                   par_vars, opt_vars, pending_regen, regen_deadline, now, ui_events,
                   sched_last, rng_draws, ras_vars, blur_vars>>

\* time passes: update returns and is called again TickMs later, or (while
\* a later call can still begin) the time is spent inside the call, between
\* the debounce handler and a control.  A call of update begins with its
\* receive loop
UiTick ==
    /\ ui_pc = "idle"
    /\ now < MaxNow
    /\ now' = now + TickMs
    /\ \/ ui_pc' = "recv"
       \/ ui_pc' = "idle" /\ now' < MaxNow
    /\ sched_last' = <<>>
    /\ UNCHANGED <<core_vars, new_vars, par_vars, opt_vars, max_possible_count,
                   pending_regen, regen_deadline, ui_events, rng_draws, ras_vars, blur_vars>>

\* job_id == self.blur_job_id
JobMatches(job_id, current) == job_id = current

\* idx < self.right_blurred_textures.len()
IndexInRange(idx, slots) == idx < Len(slots)

\* the receive loop of update, one try_recv that gives a message
\* <<job_id, idx, rgba>>: the texture is stored if the job is the current
\* one and the index is one of the slots
UiRecv ==
    /\ ui_pc = "recv"
    /\ blurred_rx # <<>>
    /\ blur_chan[blurred_rx[1]] # <<>>
    /\ LET rx == blurred_rx[1]
           msg == Head(blur_chan[rx])
           job_id == msg[1]
           idx == msg[2]
           tex == [name |-> <<"right_first_blurred", idx>>, image |-> msg[3]]
           stored == JobMatches(job_id, blur_job_id)
                     /\ IndexInRange(idx, right_blurred_textures)
       IN  /\ blur_chan' = [blur_chan EXCEPT ![rx] = Tail(@)]
           /\ right_blurred_textures' =
                 IF stored
                 THEN [right_blurred_textures EXCEPT ![idx + 1] = <<tex>>]
                 ELSE right_blurred_textures
           /\ blur_from' = IF stored THEN [blur_from EXCEPT ![idx + 1] = rx]
                           ELSE blur_from
    /\ sched_last' = <<>>
    /\ UNCHANGED <<core_vars, new_vars, par_vars, opt_vars, max_possible_count,
                   pending_regen, regen_deadline, now, ui_pc, ui_events, rng_draws,
                   ras_vars, right_mono_textures, right_first_scaled_textures,
                   blur_job_id, blurred_rx, blur_threads>>

\* the receive loop ends: there is no receiver, or try_recv gives no message
UiRecvDone ==
    /\ ui_pc = "recv"
    /\ blurred_rx = <<>> \/ blur_chan[blurred_rx[1]] = <<>>
    /\ ui_pc' = "update"
    /\ sched_last' = <<>>
    /\ UNCHANGED <<core_vars, new_vars, par_vars, opt_vars, max_possible_count,
                   pending_regen, regen_deadline, now, ui_events, rng_draws, ras_vars,
                   blur_vars>>

\* thread k, one iteration of its loop: let _ = tx.send((job_id, i, rgba)).
\* The send fails, and is ignored, once the receiver has been dropped
BlurSend(k) ==
    /\ blur_threads[k].next < Len(BLUR_LEVELS)
    /\ LET t == blur_threads[k]
       IN  /\ blur_chan' =
                 IF blurred_rx = <<k>>
                 THEN [blur_chan EXCEPT
                          ![k] = Append(@, <<t.job_id, t.next, BlurredImage(t, t.next)>>)]
                 ELSE blur_chan
           /\ blur_threads' = [blur_threads EXCEPT ![k].next = @ + 1]
    /\ UNCHANGED <<core_vars, new_vars, par_vars, opt_vars, ui_vars, rng_draws, ras_vars,
                   right_mono_textures, right_first_scaled_textures,
                   right_blurred_textures, blur_job_id, blurred_rx, blur_from>>

\* the threads of the blur jobs
BlurThreads == \E k \in 1..Len(blur_threads) : BlurSend(k)

\* (mutant) the handler waits until the deadline has passed
DeadlineReachedLate(t, deadline) == t > deadline

\* Instant::now() >= deadline
DeadlineReached(t, deadline) == t >= deadline

\* if let (Some(kind), Some(deadline)) = (..) { if Instant::now() >= deadline
DebounceDue ==
    /\ pending_regen # <<>>
    /\ regen_deadline # <<>>
    /\ DeadlineReached(now, regen_deadline[1])

\* the debounce handler with nothing due: the controls follow
UiDebounceNone ==
    /\ ui_pc = "update"
    /\ ~DebounceDue
    /\ ui_pc' = "idle"
    /\ sched_last' = <<>>
    /\ UNCHANGED <<core_vars, new_vars, par_vars, opt_vars, max_possible_count,
                   pending_regen, regen_deadline, now, ui_events, rng_draws, ras_vars, blur_vars>>

\* the debounce handler at or after the deadline, RegenKind::Full:
\* self.regenerate(ctx) is entered
UiDebounceFull ==
    /\ ui_pc = "update"
    /\ DebounceDue
    /\ pending_regen = <<"Full">>
    /\ app_pc' = "start"
    /\ ui_pc' = "debounce"
    /\ sched_last' = <<>>
    /\ UNCHANGED <<f32_scale, part_vars, pool_vars, sel_vars, sides, count, threshold,
                   tags, textures, high_res, save_size, defer_high_res, ord_vars,
                   new_vars, par_vars, opt_vars, max_possible_count, pending_regen,
                   regen_deadline, now, ui_events, rng_draws, ras_vars, blur_vars>>

\* the debounce handler at or after the deadline, RegenKind::ImagesOnly:
\* rebuild_textures_quick, then both fields are cleared
UiDebounceImages ==
    /\ ui_pc = "update"
    /\ DebounceDue
    /\ pending_regen = <<"ImagesOnly">>
    /\ rebuild_textures_quick
    /\ pending_regen' = <<>>
    /\ regen_deadline' = <<>>
    /\ ui_pc' = "idle"
    /\ sched_last' = <<>>
    /\ UNCHANGED <<f32_scale, part_vars, pool_vars, sel_vars, sides, count, threshold,
                   tags, high_res, save_size, defer_high_res, app_pc, ord_vars,
                   new_vars, par_vars, opt_vars, max_possible_count, now,
                   ui_events, rng_draws, ras_vars>>

\* regenerate has returned to its caller: the debounce handler clears both
\* fields and the controls follow; the button does nothing more; after the
\* regenerate of main the first call of update begins
UiRegenReturned ==
    /\ ui_pc \in {"debounce", "button", "startup"}
    /\ app_pc = "done"
    /\ app_pc' = "idle"
    /\ pending_regen' = IF ui_pc = "debounce" THEN <<>> ELSE pending_regen
    /\ regen_deadline' = IF ui_pc = "debounce" THEN <<>> ELSE regen_deadline
    /\ ui_pc' = IF ui_pc = "startup" THEN "recv" ELSE "idle"
    /\ sched_last' = <<>>
    /\ UNCHANGED <<f32_scale, part_vars, pool_vars, sel_vars, sides, count, threshold,
                   tags, textures, high_res, save_size, defer_high_res, ord_vars,
                   new_vars, par_vars, opt_vars, max_possible_count, now, ui_events,
                   rng_draws, ras_vars, blur_vars>>

\* the count slider, COUNT_MIN..=max_possible_count
UiCount ==
    /\ ui_pc = "idle"
    /\ ui_events < MaxEvents
    /\ \E new_count \in COUNT_MIN..max_possible_count :
          /\ new_count # count
          /\ count' = new_count
    /\ schedule_regen("Full", FULL_DELAY_MS)
    /\ ui_events' = ui_events + 1
    /\ UNCHANGED <<f32_scale, part_vars, pool_vars, sel_vars, sides, threshold, tags,
                   textures, high_res, save_size, defer_high_res, app_pc, ord_vars,
                   new_vars, par_vars, opt_vars, max_possible_count, now, ui_pc,
                   rng_draws, ras_vars, blur_vars>>

\* the sides slider, up to the call of the selector in
\* update_max_possible_count
UiSides ==
    /\ ui_pc = "idle"
    /\ ui_events < MaxEvents
    /\ \E new_sides \in SIDES_MIN..SIDES_MAX :
          /\ new_sides # sides
          /\ sides' = new_sides
          /\ SelCall(TEST_TAGS * new_sides)
    /\ ui_pc' = "sides"
    /\ ui_events' = ui_events + 1
    /\ sched_last' = <<>>
    /\ UNCHANGED <<f32_scale, part_vars, pool_vars, count, threshold, tags, textures,
                   high_res, save_size, defer_high_res, app_pc, ord_vars, new_vars,
                   par_vars, opt_vars, max_possible_count, pending_regen,
                   regen_deadline, now, rng_draws, ras_vars, blur_vars>>

\* the sides slider, from the return of the selector: the new maximum, the
\* count clamped to it, the request
UiSidesMax ==
    /\ ui_pc = "sides"
    /\ sel_pc = "done"
    /\ max_possible_count' = MaxPossible(Len(sel_colors), sides)
    /\ count' = Min2(count, max_possible_count')
    /\ SelDropped
    /\ schedule_regen("Full", FULL_DELAY_MS)
    /\ ui_pc' = "idle"
    /\ UNCHANGED <<f32_scale, part_vars, pool_vars, sides, threshold, tags, textures,
                   high_res, save_size, defer_high_res, app_pc, ord_vars, new_vars,
                   par_vars, opt_vars, now, ui_events, rng_draws, ras_vars, blur_vars>>

\* the Regenerate button: self.regenerate(ctx) is entered
UiRegenerate ==
    /\ ui_pc = "idle"
    /\ ui_events < MaxEvents
    /\ app_pc' = "start"
    /\ ui_pc' = "button"
    /\ ui_events' = ui_events + 1
    /\ sched_last' = <<>>
    /\ UNCHANGED <<f32_scale, part_vars, pool_vars, sel_vars, sides, count, threshold,
                   tags, textures, high_res, save_size, defer_high_res, ord_vars,
                   new_vars, par_vars, opt_vars, max_possible_count, pending_regen,
                   regen_deadline, now, rng_draws, ras_vars, blur_vars>>

\* the two Save buttons: render_high_res_images, then the files are written
UiSave ==
    /\ ui_pc = "idle"
    /\ ui_events < MaxEvents
    /\ high_res' = HighResOf(tags, RenderOpts)
    /\ ui_events' = ui_events + 1
    /\ sched_last' = <<>>
    /\ UNCHANGED <<f32_scale, part_vars, pool_vars, sel_vars, sides, count, threshold,
                   tags, textures, save_size, defer_high_res, app_pc, ord_vars,
                   new_vars, par_vars, opt_vars, max_possible_count, pending_regen,
                   regen_deadline, now, ui_pc, rng_draws, ras_vars, blur_vars>>

\* the two dot checkboxes
UiDotToggle ==
    /\ ui_pc = "idle"
    /\ ui_events < MaxEvents
    /\ \/ center_dot' = ~center_dot /\ UNCHANGED gradient_dot
       \/ gradient_dot' = ~gradient_dot /\ UNCHANGED center_dot
    /\ schedule_regen("ImagesOnly", DOT_DELAY_MS)
    /\ ui_events' = ui_events + 1
    /\ UNCHANGED <<core_vars, new_vars, par_vars, center_dot_size_pct,
                   gradient_dot_size_pct, last_left_tile_w, max_possible_count, now,
                   ui_pc, rng_draws, ras_vars, blur_vars>>

\* the two dot size sliders, each enabled while its dot is
UiDotSize ==
    /\ ui_pc = "idle"
    /\ ui_events < MaxEvents
    /\ \/ /\ center_dot
          /\ \E sz \in DotSizes : sz # center_dot_size_pct /\ center_dot_size_pct' = sz
          /\ UNCHANGED gradient_dot_size_pct
       \/ /\ gradient_dot
          /\ \E gsz \in DotSizes : gsz # gradient_dot_size_pct /\ gradient_dot_size_pct' = gsz
          /\ UNCHANGED center_dot_size_pct
    /\ schedule_regen("ImagesOnly", DOT_DELAY_MS)
    /\ ui_events' = ui_events + 1
    /\ UNCHANGED <<core_vars, new_vars, par_vars, center_dot, gradient_dot,
                   last_left_tile_w, max_possible_count, now, ui_pc, rng_draws, ras_vars, blur_vars>>

\* the resolution slider: rebuild_textures_quick at once
UiResolution ==
    /\ ui_pc = "idle"
    /\ ui_events < MaxEvents
    /\ rebuild_textures_quick
    /\ ui_events' = ui_events + 1
    /\ sched_last' = <<>>
    /\ UNCHANGED <<f32_scale, part_vars, pool_vars, sel_vars, sides, count, threshold,
                   tags, high_res, save_size, defer_high_res, app_pc, ord_vars,
                   new_vars, par_vars, opt_vars, max_possible_count, pending_regen,
                   regen_deadline, now, ui_pc, rng_draws, ras_vars>>

\* the left panel has another width: the tile width follows it
UiPanelResized ==
    /\ ui_pc = "idle"
    /\ ui_events < MaxEvents
    /\ \E tile_w \in TileWidths : tile_w # last_left_tile_w /\ last_left_tile_w' = tile_w
    /\ schedule_regen("ImagesOnly", RESIZE_DELAY_MS)
    /\ ui_events' = ui_events + 1
    /\ UNCHANGED <<core_vars, new_vars, par_vars, center_dot, center_dot_size_pct,
                   gradient_dot, gradient_dot_size_pct, max_possible_count, now, ui_pc,
                   rng_draws, ras_vars, blur_vars>>

\* the defer checkbox
UiDefer ==
    /\ ui_pc = "idle"
    /\ ui_events < MaxEvents
    /\ defer_high_res' = ~defer_high_res
    /\ ui_events' = ui_events + 1
    /\ sched_last' = <<>>
    /\ UNCHANGED <<f32_scale, part_vars, pool_vars, sel_vars, sides, count, threshold,
                   tags, textures, high_res, save_size, app_pc, ord_vars, new_vars,
                   par_vars, opt_vars, max_possible_count, pending_regen,
                   regen_deadline, now, ui_pc, rng_draws, ras_vars, blur_vars>>

\* ------------------------------------------------------------------------
\* The partitioner called on its own: every input of the bounds
\* ------------------------------------------------------------------------
\* Lab inputs on the lightness axis, in units of f32::EPSILON: their
\* distances and the sums of two of them are exact in f32
PartLabSet == {<<l, 0, 0>> : l \in 0..MaxLabL}

SeqsOfLen(S, n) == [1..n -> S]

\* longer inputs are drawn in order of lightness
IsNondecreasing(ls) == \A k \in 1..(Len(ls) - 1) : ls[k][1] <= ls[k + 1][1]

InitPart ==
    /\ f32_scale = EPSILON_INV
    /\ tag_count \in 0..MaxN
    /\ group_size \in 0..MaxN
    /\ \E n \in 0..MaxN :
          /\ n \in {tag_count * group_size - 1, tag_count * group_size,
                    tag_count * group_size + 1}
          /\ colors = SubSeq(candidate_srgb_grid, 1, n)
          /\ labs \in SeqsOfLen(PartLabSet, n)
          /\ n <= MaxFree \/ IsNondecreasing(labs)
    /\ iters = MaxIters
    /\ dm = <<>>
    /\ remaining = <<>>
    /\ groups = <<>>
    /\ group = <<>>
    /\ it = 0
    /\ part_pc = "entry"
    /\ part_ret = <<>>
    /\ candidate_pool = <<>>
    /\ candidate_labs = <<>>
    /\ SelIdle
    /\ AppIdle
    /\ OrdIdle
    /\ NewIdle
    /\ MoreIdle

NextPart == PartStep

SpecPart == InitPart /\ [][NextPart]_vars

\* ------------------------------------------------------------------------
\* The selector called on its own: every pool and total of the bounds
\* ------------------------------------------------------------------------
\* Lab values of the pools, in units of f32_scale
SelLabPoints == <<<<0, 0, 0>>, <<1, 0, 0>>, <<1, 3, 0>>, <<4, 3, 4>>, <<6, 0, 4>>, <<9, 3, 0>>>>

\* the selector shuffles the pool before every use of its order, and the
\* colours of a pool are distinct: a pool is a choice among the first
\* MaxLabs points, in their order
IsPoolChoice(ls) ==
    \E pick \in SUBSET (1..Min2(MaxLabs, Len(SelLabPoints))) :
        /\ Cardinality(pick) = Len(ls)
        /\ \A k \in 1..Len(ls) :
              /\ k \in DOMAIN ls
              /\ \E x \in pick : /\ ls[k] = SelLabPoints[x]
                                 /\ Cardinality({y \in pick : y < x}) = k - 1

InitSel ==
    /\ f32_scale = EPSILON_INV
    /\ PartIdle
    /\ \E m \in 0..MaxPool :
          /\ candidate_pool = SubSeq(candidate_srgb_grid, 1, m)
          /\ candidate_labs \in SeqsOfLen({SelLabPoints[x] : x \in 1..Min2(MaxLabs, Len(SelLabPoints))}, m)
          /\ IsPoolChoice(candidate_labs)
    /\ total \in 0..(MaxPool + 1)
    /\ samples = 0
    /\ max_d = 0
    /\ lo = 0
    /\ hi = 0
    /\ best_thr = 0
    /\ best_idxs = <<>>
    /\ bs_iter = 0
    /\ attempt = 0
    /\ sel_pc = "sample"
    /\ sel_thr = 0
    /\ sel_colors = <<>>
    /\ AppIdle
    /\ OrdIdle
    /\ NewIdle
    /\ MoreIdle

NextSel == SelStep

SpecSel == InitSel /\ [][NextSel]_vars

\* ------------------------------------------------------------------------
\* reorder_bright_dark_alternating called on its own: every group of the
\* bounds
\* ------------------------------------------------------------------------
\* colours of the groups; the first two have the same lightness
OrdPalette == <<<<16, 16, 208>>, <<112, 16, 112>>, <<255, 255, 255>>, <<16, 16, 16>>,
                <<16, 208, 112>>, <<255, 160, 16>>>>

InitOrd ==
    /\ f32_scale = LabScale
    /\ PartIdle
    /\ candidate_pool = <<>>
    /\ candidate_labs = <<>>
    /\ SelIdle
    /\ AppIdle
    /\ \E n \in 0..MaxGroup :
          ord_arg \in SeqsOfLen({OrdPalette[x] : x \in 1..Min2(MaxPalette, Len(OrdPalette))}, n)
    /\ ord_colors = ord_arg
    /\ ord_pc = "call"
    /\ NewIdle
    /\ MoreIdle

NextOrd == OrdCall

SpecOrd == InitOrd /\ [][NextOrd]_vars

\* ------------------------------------------------------------------------
\* AppState::new: the construction of the pool from the grid
\* ------------------------------------------------------------------------
InitNew ==
    /\ f32_scale = LabScale
    /\ PartIdle
    /\ candidate_pool = <<>>
    /\ candidate_labs = <<>>
    /\ SelIdle
    /\ AppIdle
    /\ OrdIdle
    /\ new_i = 0
    /\ new_pc = "retain"
    /\ MoreIdle

NextNew ==
    \/ NewRetain
    \/ NewStore

SpecNew == InitNew /\ [][NextNew]_vars

\* ------------------------------------------------------------------------
\* The parallel map called on its own: every vector of tags of the bounds,
\* from either caller, under every schedule of the threads
\* ------------------------------------------------------------------------
\* groups the tags are drawn from
ParGroups ==
    {<<At(candidate_srgb_grid, 0), At(candidate_srgb_grid, 1), At(candidate_srgb_grid, 2)>>,
     <<At(candidate_srgb_grid, 3), At(candidate_srgb_grid, 4), At(candidate_srgb_grid, 5)>>,
     <<At(candidate_srgb_grid, 6), At(candidate_srgb_grid, 7), At(candidate_srgb_grid, 8)>>}

InitPar ==
    /\ f32_scale = LabScale
    /\ PartIdle
    /\ candidate_pool = <<>>
    /\ candidate_labs = <<>>
    /\ SelIdle
    /\ AppIdle
    /\ OrdIdle
    /\ NewIdle
    /\ par_kind \in {"high_res", "quick"}
    /\ \E n \in 0..MaxParTags : par_tags \in SeqsOfLen(ParGroups, n)
    /\ \E cd \in BOOLEAN, gd \in BOOLEAN :
          par_opts = [sides |-> SIDES_MIN, save_size |-> SAVE_SIZE_DEFAULT,
                      tile_w |-> Max2(TILE_WIDTH_DEFAULT, 2),
                      center_dot |-> cd, center_dot_size_pct |-> CENTER_DOT_DEFAULT,
                      gradient_dot |-> gd, gradient_dot_size_pct |-> GRADIENT_DOT_DEFAULT]
    /\ par_slots = [k \in 1..Len(par_tags) |-> <<>>]
    /\ par_claimed = {}
    /\ par_held = [w \in 1..Workers |-> -1]
    /\ par_img = [w \in 1..Workers |-> <<>>]
    /\ par_order = <<>>
    /\ par_out = <<>>
    /\ par_pc = "map"
    /\ UiIdle
    /\ rng_draws = 0
    /\ RasIdle
    /\ BlurIdle

NextPar ==
    \/ \E w \in 1..Workers : ParTake(w)
    \/ \E w \in 1..Workers : ParDraw(w)
    \/ \E w \in 1..Workers : ParWrite(w)
    \/ ParCollect
    \/ ParPush
    \/ ParPushed

SpecPar == InitPar /\ [][NextPar]_vars

\* ------------------------------------------------------------------------
\* draw_marker_polygon called on its own: every canvas of up to MaxCanvas
\* by MaxCanvas pixels (all dot sizes give the least radius there) and the
\* canvas of MidCanvas by MidCanvas - 1 pixels with the dots at three sizes,
\* both with every sides and groups of no, one, two and `sides` colours; and
\* the square canvas of ScenarioSize pixels with a group of four and the
\* default dot sizes
\* ------------------------------------------------------------------------
RasPalette ==
    <<At(FilteredPool, 1), At(FilteredPool, 8), At(FilteredPool, 15),
      At(FilteredPool, 22), At(FilteredPool, 29), At(FilteredPool, 36)>>

InitRas ==
    /\ f32_scale = LabScale
    /\ PartIdle
    /\ candidate_pool = <<>>
    /\ candidate_labs = <<>>
    /\ SelIdle
    /\ AppIdle
    /\ OrdIdle
    /\ NewIdle
    /\ ParIdle
    /\ UiIdle
    /\ rng_draws = 0
    /\ BlurIdle
    /\ \/ /\ width \in 1..MaxCanvas
          /\ height \in 1..MaxCanvas
          /\ ras_sides \in SIDES_MIN..SIDES_MAX
          /\ ras_colors \in {SubSeq(RasPalette, 1, n) : n \in {0, 1, 2, ras_sides}}
          /\ ras_center_pct = CENTER_DOT_DEFAULT
          /\ ras_gradient_pct = GRADIENT_DOT_DEFAULT
       \/ /\ width = MidCanvas
          /\ height = MidCanvas - 1
          /\ ras_sides \in SIDES_MIN..SIDES_MAX
          /\ ras_colors \in {SubSeq(RasPalette, 1, n) : n \in {0, 1, 2, ras_sides}}
          /\ ras_center_pct \in {CENTER_DOT_MIN, CENTER_DOT_DEFAULT, CENTER_DOT_MAX}
          /\ ras_gradient_pct \in {GRADIENT_DOT_DEFAULT, GRADIENT_DOT_MAX}
       \/ /\ width = ScenarioSize
          /\ height = ScenarioSize
          /\ ras_sides = SIDES_DEFAULT
          /\ ras_colors = SubSeq(RasPalette, 1, SIDES_DEFAULT)
          /\ ras_center_pct = CENTER_DOT_DEFAULT
          /\ ras_gradient_pct = GRADIENT_DOT_DEFAULT
    /\ ras_center_dot \in BOOLEAN
    /\ ras_gradient_dot \in BOOLEAN
    /\ half_away \in BOOLEAN
    /\ verts = <<>>
    /\ img = <<>>
    /\ ras_i = 0
    /\ layers = <<>>
    /\ ras_pc = "entry"

NextRas ==
    \/ RasSetup
    \/ RasWedge
    \/ RasWedgesDone
    \/ RasCenterDot
    \/ RasGradientDot

SpecRas == InitRas /\ [][NextRas]_vars

\* ------------------------------------------------------------------------
\* A session: AppState::new from the call of update_max_possible_count, the
\* regenerate of main, then updates
\* ------------------------------------------------------------------------
InitUiDraws(draws) ==
    /\ f32_scale = LabScale
    /\ PartIdle
    /\ candidate_pool = SubSeq(FilteredPool, 1, AppPool)
    /\ candidate_labs = LabsOf(candidate_pool)
    /\ total = TEST_TAGS * SIDES_DEFAULT
    /\ samples = 0
    /\ max_d = 0
    /\ lo = 0
    /\ hi = 0
    /\ best_thr = 0
    /\ best_idxs = <<>>
    /\ bs_iter = 0
    /\ attempt = 0
    /\ sel_pc = "sample"
    /\ sel_thr = 0
    /\ sel_colors = <<>>
    /\ AppIdle
    /\ OrdIdle
    /\ NewBuilt
    /\ ParIdle
    /\ center_dot = CENTER_DOT_ENABLED_DEFAULT
    /\ center_dot_size_pct = CENTER_DOT_DEFAULT
    /\ gradient_dot = GRADIENT_DOT_ENABLED_DEFAULT
    /\ gradient_dot_size_pct = GRADIENT_DOT_DEFAULT
    /\ last_left_tile_w = TILE_WIDTH_DEFAULT
    /\ max_possible_count = COUNT_MAX
    /\ pending_regen = <<>>
    /\ regen_deadline = <<>>
    /\ now = 0
    /\ ui_pc = "new"
    /\ ui_events = 0
    /\ sched_last = <<>>
    /\ rng_draws = draws
    /\ RasIdle
    /\ BlurIdle

InitUi == InitUiDraws(SessionDraws)

NextUi ==
    \/ UiNewMax
    \/ NextSel
    \/ RegenStart
    \/ RegenSelected
    \/ NextPart
    \/ RegenGrouped
    \/ RegenRender
    \/ UiRegenReturned
    \/ UiTick
    \/ UiRecvDone
    \/ UiDebounceNone
    \/ UiDebounceFull
    \/ UiDebounceImages
    \/ UiCount
    \/ UiSides
    \/ UiSidesMax
    \/ UiRegenerate
    \/ UiSave
    \/ UiDotToggle
    \/ UiDotSize
    \/ UiResolution
    \/ UiPanelResized
    \/ UiDefer

SpecUi == InitUi /\ [][NextUi]_vars

\* the steps of update and of AppState::new themselves, between the calls
\* they make
UiHandles ==
    \/ UiNewMax
    \/ UiRegenReturned
    \/ UiRecvDone
    \/ UiDebounceNone
    \/ UiDebounceFull
    \/ UiDebounceImages
    \/ UiSidesMax

\* the steps of the calls: the selector, regenerate and, inside it, the
\* partitioner
UiCalls ==
    \/ NextSel
    \/ RegenStart
    \/ RegenSelected
    \/ NextPart
    \/ RegenGrouped
    \/ RegenRender

\* a call has begun and not returned: one of the steps of UiCalls is
\* enabled
CallRunning ==
    \/ ui_pc \in {"new", "sides"} /\ sel_pc # "done"
    \/ ui_pc \in {"startup", "button", "debounce"} /\ app_pc # "done"

\* a session in which update keeps being called as time advances and the
\* program keeps running: weak fairness of the next call of update, of the
\* handler's own steps, and of the steps of the calls (for these the
\* enabling condition is written out as CallRunning)
SpecUiLive ==
    /\ InitUiDraws(1)
    /\ [][NextUi]_vars
    /\ WF_vars(UiTick /\ ui_pc' = "recv")
    /\ WF_vars(UiHandles)
    /\ ([]<>(~CallRunning) \/ []<><<UiCalls>>_vars)

\* ------------------------------------------------------------------------
\* A session with its blur jobs, from the regenerate of main having grouped
\* its tags (the states SpecUi is in then): its images, then updates with
\* the resolution slider and the resizing of the panel, the threads of the
\* jobs running at any time between the steps of the UI thread
\* ------------------------------------------------------------------------
\* the tags the regenerate of main ends with
StartupTags ==
    LET pool == SubSeq(FilteredPool, 1, AppPool)
    IN  {<<<<pool[3], pool[4], pool[2], pool[1]>>>>,
         <<<<pool[3], pool[5], pool[2], pool[4]>>>>}

InitBlur ==
    /\ f32_scale = LabScale
    /\ PartIdle
    /\ candidate_pool = SubSeq(FilteredPool, 1, AppPool)
    /\ candidate_labs = LabsOf(candidate_pool)
    /\ SelIdle
    /\ sides = SIDES_DEFAULT
    /\ count = ReducedCount(AppPool, SIDES_DEFAULT)
    /\ threshold = 0
    /\ tags \in StartupTags
    /\ textures = <<>>
    /\ high_res = <<>>
    /\ save_size = SAVE_SIZE_DEFAULT
    /\ defer_high_res = DEFER_HIGH_RES_DEFAULT
    /\ app_pc = "render"
    /\ OrdIdle
    /\ NewBuilt
    /\ ParIdle
    /\ center_dot = CENTER_DOT_ENABLED_DEFAULT
    /\ center_dot_size_pct = CENTER_DOT_DEFAULT
    /\ gradient_dot = GRADIENT_DOT_ENABLED_DEFAULT
    /\ gradient_dot_size_pct = GRADIENT_DOT_DEFAULT
    /\ last_left_tile_w = TILE_WIDTH_DEFAULT
    /\ max_possible_count = MaxPossible(AppPool, SIDES_DEFAULT)
    /\ pending_regen = <<>>
    /\ regen_deadline = <<>>
    /\ now = 0
    /\ ui_pc = "startup"
    /\ ui_events = 0
    /\ sched_last = <<>>
    /\ rng_draws = SessionDraws
    /\ RasIdle
    /\ BlurIdle

NextBlur ==
    \/ RegenRender
    \/ UiRegenReturned
    \/ UiTick
    \/ UiRecv
    \/ UiRecvDone
    \/ UiDebounceNone
    \/ UiDebounceImages
    \/ UiResolution
    \/ UiPanelResized
    \/ BlurThreads

SpecBlur == InitBlur /\ [][NextBlur]_vars

\* ------------------------------------------------------------------------
\* AppState: new, then one regenerate from every sides and count of the
\* bounds
\* ------------------------------------------------------------------------
Init ==
    /\ f32_scale = LabScale
    /\ PartIdle
    /\ candidate_pool = SubSeq(FilteredPool, 1, AppPool)
    /\ candidate_labs = LabsOf(candidate_pool)
    /\ SelIdle
    /\ sides \in (SIDES_MIN - 1)..(SIDES_MAX + 1)
    /\ count \in 0..MaxCount
    /\ threshold = THRESHOLD_DEFAULT * LabScale * ThrScale
    /\ tags = <<>>
    /\ textures = <<>>
    /\ high_res = <<>>
    /\ save_size = SAVE_SIZE_DEFAULT
    /\ defer_high_res = DEFER_HIGH_RES_DEFAULT
    /\ app_pc = "start"
    /\ OrdIdle
    /\ NewBuilt
    /\ MoreIdle

Next ==
    \/ RegenStart
    \/ NextSel
    \/ RegenSelected
    \/ NextPart
    \/ RegenGrouped
    \/ RegenRender
    \/ RegenPanic

Spec == Init /\ [][Next]_vars

\* ------------------------------------------------------------------------
\* Claims about the parallel map (SpecPar)
\* ------------------------------------------------------------------------

\* the image of tag t (1-based) as the caller of kind k draws it
RenderingOf(k, t) ==
    IF k = "high_res"
    THEN MarkerImage(par_opts.save_size[1], par_opts.save_size[2], par_opts.sides,
                     par_tags[t], par_opts)
    ELSE MarkerImage(par_opts.tile_w, par_opts.tile_w, par_opts.sides, par_tags[t], par_opts)

\* C17: under every schedule of the threads the parallel map returns one
\* image per tag, the image at index i being the rendering of tags[i] under
\* the shared options, as a sequential map does; a slot of the result is
\* written once, by the thread that holds its item, and the tags and the
\* options are not written.
C17_ParallelEqualsSequential ==
    /\ [](par_pc = "done" =>
            /\ Len(par_out) = Len(par_tags)
            /\ \A t \in 1..Len(par_tags) : par_out[t] = RenderingOf(par_kind, t))
    /\ [][/\ par_tags' = par_tags
          /\ par_opts' = par_opts
          /\ \A k \in 1..Len(par_slots) :
                par_slots'[k] # par_slots[k] =>
                   /\ par_slots[k] = <<>>
                   /\ \E w \in 1..Workers : par_held[w] = k - 1 /\ par_img[w] # <<>>]_vars

\* a map of three different tags has returned, the slots having been
\* written in an order other than that of the indices
C17_Witness ==
    /\ par_pc = "done"
    /\ Len(par_tags) = 3
    /\ \A a, b \in 1..3 : a # b => par_tags[a] # par_tags[b]
    /\ par_order = <<2, 0, 1>>

\* ------------------------------------------------------------------------
\* Claims about draw_marker_polygon (SpecRas)
\* ------------------------------------------------------------------------

\* the call has returned the image
Drawn == ras_pc = "done"

\* the pixel at (round(width / 2), round(height / 2))
CentrePixel == <<(width + 1) \div 2, (height + 1) \div 2>>

\* pixel px is at most r200 / 200 from (width / 2, height / 2)
AtMostFromCentre(px, r200) ==
    10000 * ((2 * px[1] - width) * (2 * px[1] - width)
             + (2 * px[2] - height) * (2 * px[2] - height)) <= r200 * r200

\* C14: with the centre dot on and the gradient dot off, every pixel of the
\* canvas at most the dot radius from (width / 2, height / 2) is (0, 0, 0)
\* in the returned image; so is the centre pixel of the 4-sided marker on
\* the square scenario canvas with the 35% dot.
C14_CentreDotBlack ==
    (Drawn /\ ras_center_dot /\ ~ras_gradient_dot) =>
        /\ \A px \in Canvas(width, height) :
              AtMostFromCentre(px, DotRadius200(width, height, ras_center_pct)) =>
                 img[px] = BLACK
        /\ (width = ScenarioSize /\ height = ScenarioSize) =>
              img[<<width \div 2, height \div 2>>] = BLACK

\* the scenario: 4 sides on the square scenario canvas, 35% centre dot; the
\* centre is black, a pixel 17 to its right too, and the pixel 18 to its
\* right has kept its wedge colour
C14_Witness ==
    /\ Drawn
    /\ ras_center_dot
    /\ ~ras_gradient_dot
    /\ width = ScenarioSize
    /\ ras_sides = SIDES_DEFAULT
    /\ ras_center_pct = CENTER_DOT_DEFAULT
    /\ Len(layers) = ras_sides + 1
    /\ img[<<width \div 2, height \div 2>>] = BLACK
    /\ img[<<width \div 2 + 17, height \div 2>>] = BLACK
    /\ img[<<width \div 2 + 18, height \div 2>>] \in Members(ras_colors)

\* C15: with both dots off, 3 to 6 sides, a group of at least one colour
\* and a canvas of at least 2 by 2 pixels, the pixel at (round(width / 2),
\* round(height / 2)) of the returned image is one of the group's colours.
C15_CentreIsWedgeColour ==
    (/\ Drawn
     /\ ~ras_center_dot
     /\ ~ras_gradient_dot
     /\ ras_sides \in 3..6
     /\ Len(ras_colors) >= 1
     /\ width >= 2
     /\ height >= 2) =>
        /\ CentrePixel \in Canvas(width, height)
        /\ img[CentrePixel] \in Members(ras_colors)
        /\ img[CentrePixel] # WHITE

\* an image of odd width and even height with both dots off, whose centre
\* pixel has the colour of the last wedge while a corner is still white
C15_Witness ==
    /\ Drawn
    /\ ~ras_center_dot
    /\ ~ras_gradient_dot
    /\ width = 3
    /\ height = 2
    /\ Len(ras_colors) = ras_sides
    /\ img[CentrePixel] = ras_colors[ras_sides]
    /\ img[<<0, 0>>] = WHITE

\* the layers applied so far are wedges, then at most one centre dot, then
\* at most one gradient dot
LayersInOrder ==
    \A a, b \in 1..Len(layers) :
        a < b => /\ layers[b] = "wedge" => layers[a] = "wedge"
                 /\ layers[b] = "center" => layers[a] = "wedge"
                 /\ layers[b] = "gradient" => layers[a] # "gradient"

\* C16: the layers are applied in the order wedges, centre dot, gradient
\* dot; the gradient blend of a pixel under the centre dot reads black;
\* with both dots on, a pixel at exactly (width / 2, height / 2) ends
\* (255, 255, 255); the centre dot is never drawn after the gradient dot.
C16_GradientOverCentreDot ==
    /\ [](LayersInOrder)
    /\ []((Drawn /\ ras_center_dot /\ ras_gradient_dot
             /\ width % 2 = 0 /\ height % 2 = 0) =>
            img[<<width \div 2, height \div 2>>] = WHITE)
    /\ [][(ras_pc = "gradient" /\ ras_center_dot) =>
            \A px \in Canvas(width, height) :
               (/\ AtMostFromCentre(px, DotRadius200(width, height, ras_center_pct))
                /\ AtMostFromCentre(px, DotRadius200(width, height, ras_gradient_pct))) =>
                  /\ img[px] = BLACK
                  /\ img'[px] = Blend(BLACK,
                                       Alpha(px, width, height,
                                             DotRadius200(width, height, ras_gradient_pct)),
                                       half_away)]_vars

\* the scenario canvas with both dots on: the centre is white, and ten
\* pixels to its right the black of the centre dot shows through as a grey
C16_Witness ==
    /\ Drawn
    /\ ras_center_dot
    /\ ras_gradient_dot
    /\ width = ScenarioSize
    /\ layers[Len(layers)] = "gradient"
    /\ layers[Len(layers) - 1] = "center"
    /\ img[<<width \div 2, height \div 2>>] = WHITE
    /\ LET grey == img[<<width \div 2 + 10, height \div 2>>]
       IN  /\ grey[1] = grey[2]
           /\ grey[2] = grey[3]
           /\ grey[1] > 0
           /\ grey[1] < 255

\* the pixels from two before the canvas to two after it, on both axes: no
\* vertex and no corner of a dot's box lies farther out
Around(w, h) == ((-2)..(w + 1)) \X ((-2)..(h + 1))

\* the vertices, the centroid and the unclipped boxes of both dots lie
\* within Around
AroundHoldsAll ==
    /\ \A i \in 1..Len(verts) :
          <<verts[i].x, verts[i].y>> \in Around(width, height)
    /\ <<Centroid(width, height).x, Centroid(width, height).y>> \in Around(width, height)
    /\ \A pct \in {ras_center_pct, ras_gradient_pct} :
          LET r == DotRadius200(width, height, pct)
          IN  /\ (100 * width - r) \div 200 >= -2
              /\ (100 * height - r) \div 200 >= -2
              /\ -((-(100 * width + r)) \div 200) <= width + 1
              /\ -((-(100 * height + r)) \div 200) <= height + 1

\* C25: for a non-empty group, on every canvas at least one pixel wide and
\* high, each wedge about to be drawn writes no pixel outside the canvas,
\* the boxes of the centre dot and of the gradient dot contain no pixel
\* outside it, the call does not panic, and the image keeps the canvas as
\* its pixels.
C25_OnlyCanvasPixelsAccessed ==
    (width >= 1 /\ height >= 1 /\ ras_colors # <<>>) =>
        /\ ras_pc # "panic"
        /\ ras_pc \notin {"idle", "entry"} =>
              /\ AroundHoldsAll
              /\ DOMAIN img = Canvas(width, height)
        /\ (ras_pc = "wedges" /\ ras_i < ras_sides) =>
              \A px \in Around(width, height) \ Canvas(width, height) :
                 ~InTriangle(px, Centroid(width, height), At(verts, ras_i),
                             At(verts, (ras_i + 1) % ras_sides), width, height, half_away)
        /\ ras_pc = "center" =>
              \A px \in Around(width, height) \ Canvas(width, height) :
                 ~InDotBox(px, width, height,
                           DotRadius200(width, height, ras_center_pct))
        /\ ras_pc = "gradient" =>
              \A px \in Around(width, height) \ Canvas(width, height) :
                 ~InDotBox(px, width, height,
                           DotRadius200(width, height, ras_gradient_pct))

\* a canvas one pixel wide has been drawn with both dots: the centroid and
\* a vertex lie outside it, and so does a pixel that is within the centre
\* dot's radius
C25_Witness ==
    /\ Drawn
    /\ width = 1
    /\ ras_colors # <<>>
    /\ ras_center_dot
    /\ ras_gradient_dot
    /\ Centroid(width, height).x >= width
    /\ \E i \in 1..Len(verts) : verts[i].x < 0 \/ verts[i].y < 0
    /\ \E px \in Around(width, height) \ Canvas(width, height) :
          WithinRadius(px, width, height, DotRadius200(width, height, ras_center_pct))

\* ------------------------------------------------------------------------
\* Claims about the session (SpecUi)
\* ------------------------------------------------------------------------

\* C12: after AppState::new no step of a session (schedule_regen,
\* regenerate, update_max_possible_count, the sliders and buttons of update,
\* the texture rebuilds, the saves) changes candidate_pool or
\* candidate_labs, and candidate_labs[i] is the Lab value of
\* candidate_pool[i] in every state.
C12_PoolReadOnly ==
    /\ [][candidate_pool' = candidate_pool /\ candidate_labs' = candidate_labs]_vars
    /\ [](/\ Len(candidate_labs) = Len(candidate_pool)
          /\ \A k \in 1..Len(candidate_pool) :
                candidate_labs[k] = srgb_u8_to_lab(candidate_pool[k]))

\* the sides slider was moved, the scheduled regenerate has run and produced
\* tags of the new sides, and a Save has rendered them
C12_Witness ==
    /\ ui_pc = "idle"
    /\ ui_events = 2
    /\ sides # SIDES_DEFAULT
    /\ pending_regen = <<>>
    /\ Len(tags) >= 1
    /\ Len(tags[1]) = sides
    /\ Len(high_res) = Len(tags)
    /\ Len(textures) = Len(tags)
    /\ candidate_pool # <<>>

\* C20: a pending Full stays Full under every schedule_regen call and ends
\* only when the debounce handler has run regenerate; a Full request makes
\* the pending kind Full, and an ImagesOnly request leaves a pending
\* ImagesOnly as it is.
C20_FullNeverDowngraded ==
    /\ [](ui_pc # "idle" => sched_last = <<>>)
    /\ [][/\ (pending_regen = <<"Full">> /\ pending_regen' # <<"Full">>) =>
                (ui_pc = "debounce" /\ app_pc = "done" /\ pending_regen' = <<>>)
          /\ (sched_last' # <<>> /\ sched_last'[1] = "Full") =>
                pending_regen' = <<"Full">>
          /\ (sched_last' # <<>> /\ sched_last'[1] = "ImagesOnly"
                /\ pending_regen = <<"ImagesOnly">>) =>
                pending_regen' = <<"ImagesOnly">>]_vars

\* an ImagesOnly request has just been made while a Full was pending, and
\* the pending kind is Full
C20_Witness ==
    /\ sched_last # <<>>
    /\ sched_last[1] = "ImagesOnly"
    /\ pending_regen = <<"Full">>

\* C21: a call of schedule_regen at time `now` with delay d leaves
\* regen_deadline at now + d if none was set and at the smaller of the old
\* deadline and now + d otherwise; while a deadline is set no step moves it
\* later.
C21_EarliestDeadlineKept ==
    [][/\ sched_last' # <<>> =>
             /\ regen_deadline' # <<>>
             /\ now' = now
             /\ regen_deadline'[1] =
                   (IF regen_deadline = <<>> \/ now + sched_last'[2] < regen_deadline[1]
                    THEN now + sched_last'[2] ELSE regen_deadline[1])
       /\ (regen_deadline # <<>> /\ regen_deadline' # <<>>) =>
             regen_deadline'[1] <= regen_deadline[1]]_vars

\* a request has just been made whose own deadline would be later than the
\* one already set, and the one already set stands
C21_Witness ==
    /\ sched_last # <<>>
    /\ regen_deadline # <<>>
    /\ regen_deadline[1] < now + sched_last[2]
    /\ regen_deadline[1] > now

\* C23: pending_regen is set exactly when regen_deadline is; at the first
\* call of update at or after the deadline the debounce handler runs the
\* pending kind (regenerate for Full, rebuild_textures_quick alone for
\* ImagesOnly) and clears both fields after it, and nothing else clears
\* them; update being called as time advances, a regeneration scheduled for
\* a time within MaxNow does run.
C23_DebounceRunsPending ==
    /\ []((pending_regen = <<>>) <=> (regen_deadline = <<>>))
    /\ [][/\ (ui_pc = "update" /\ pending_regen = <<"Full">>
                /\ now >= regen_deadline[1]) =>
                /\ ui_pc' = "debounce"
                /\ app_pc' = "start"
                /\ pending_regen' = pending_regen
          /\ (ui_pc = "update" /\ pending_regen = <<"ImagesOnly">>
                /\ now >= regen_deadline[1]) =>
                /\ textures' = QuickOf(tags, RenderOpts)
                /\ tags' = tags
                /\ app_pc' = "idle"
                /\ pending_regen' = <<>>
                /\ regen_deadline' = <<>>
          /\ (ui_pc = "debounce" /\ app_pc = "done") =>
                /\ pending_regen' = <<>>
                /\ regen_deadline' = <<>>
          /\ (ui_pc = "debounce" /\ app_pc # "done") => pending_regen' = <<"Full">>
          /\ (pending_regen # <<>> /\ pending_regen' = <<>>) =>
                \/ ui_pc = "debounce" /\ app_pc = "done"
                \/ ui_pc = "update" /\ pending_regen = <<"ImagesOnly">>
          /\ (ui_pc = "update" /\ pending_regen # <<>> /\ now < regen_deadline[1]) =>
                /\ pending_regen' = pending_regen
                /\ app_pc' = "idle"
                /\ textures' = textures]_vars
    /\ (pending_regen # <<>> /\ regen_deadline # <<>> /\ regen_deadline[1] <= MaxNow)
          ~> (pending_regen = <<>>)

\* the call of update made at the very time of the deadline has run the
\* scheduled regenerate, which has produced tags of the new count, and is
\* about to clear both fields
C23_Witness ==
    /\ ui_pc = "debounce"
    /\ app_pc = "done"
    /\ pending_regen = <<"Full">>
    /\ regen_deadline # <<>>
    /\ now = regen_deadline[1]
    /\ Len(tags) = count

\* ------------------------------------------------------------------------
\* Claims about the selector (SpecSel)
\* ------------------------------------------------------------------------

\* the pool index of a returned colour (the colours of a pool are distinct)
PoolIndex(c) == CHOOSE i \in 0..(Len(candidate_pool) - 1) : At(candidate_pool, i) = c

\* C4: every two distinct members of the returned selection are at distance
\* >= the returned threshold T, and T is 0 or a midpoint at which a greedy
\* pass accepted `total` colours.
C4_SelectionSeparated ==
    sel_pc = "done" =>
        /\ \A p, q \in 1..Len(sel_colors) :
              p # q => delta_e(At(candidate_labs, PoolIndex(sel_colors[p])),
                               At(candidate_labs, PoolIndex(sel_colors[q]))) * ThrScale
                          >= sel_thr
        /\ sel_thr = 0 \/ Len(sel_colors) = total

\* a positive threshold that some pair of the pool does not meet, and a
\* full selection of at least two colours
C4_Witness ==
    /\ sel_pc = "done"
    /\ sel_thr > 0
    /\ Len(sel_colors) >= 2
    /\ Len(sel_colors) = total
    /\ \E i, j \in 0..(Len(candidate_pool) - 1) :
          /\ i # j
          /\ delta_e(At(candidate_labs, i), At(candidate_labs, j)) * ThrScale < sel_thr

\* C5: the returned selection never has more than `total` colours.
C5_AtMostTotal == sel_pc = "done" => Len(sel_colors) <= total

\* total = 0: the greedy pass accepted one colour before its limit check
C5_Witness ==
    /\ sel_pc = "done"
    /\ total = 0
    /\ Len(best_idxs) = 1
    /\ sel_colors = <<>>

\* C6: when the pool cannot supply `total` colours the call returns a
\* selection shorter than `total` and never aborts, whatever the pool size.
C6_NeverAborts ==
    total > Len(candidate_pool) =>
        /\ sel_pc # "panic"
        /\ sel_pc = "done" => Len(sel_colors) < total

\* C22: from a pool of M >= 1 candidates the returned selection has exactly
\* min(total, M) colours, taken from pairwise distinct pool indices; a
\* search without a feasible midpoint ends with the pass at threshold 0,
\* which accepts the pool entries in their shuffled order up to the limit.
C22_SelectionHasMinTotalPool ==
    (sel_pc = "done" /\ Len(candidate_pool) >= 1) =>
        /\ Len(sel_colors) = (IF total <= Len(candidate_pool)
                              THEN total ELSE Len(candidate_pool))
        /\ Len(best_idxs) >= Len(sel_colors)
        /\ \A k \in 1..Len(sel_colors) :
              /\ best_idxs[k] \in 0..(Len(candidate_pool) - 1)
              /\ sel_colors[k] = At(candidate_pool, best_idxs[k])
        /\ \A p, q \in 1..Len(sel_colors) : p # q => best_idxs[p] # best_idxs[q]

\* a pool of three colours some of which are apart, one more colour asked
\* for than it holds: no midpoint was feasible and the pass at threshold 0
\* returned the whole pool
C22_Witness ==
    /\ sel_pc = "done"
    /\ Len(candidate_pool) = 3
    /\ total = 4
    /\ max_d > 0
    /\ sel_thr = 0
    /\ Len(sel_colors) = 3

\* ------------------------------------------------------------------------
\* Claims about reorder_bright_dark_alternating (SpecOrd)
\* ------------------------------------------------------------------------
Lightness(c) == srgb_u8_to_lab(c)[1]

CountIn(s, c) == Cardinality({k \in 1..Len(s) : s[k] = c})

\* C9: whatever the group (any length, duplicates, equal lightness), the
\* group after the call has the length of the group before and holds every
\* colour as many times as the group before.
C9_ReorderIsPermutation ==
    ord_pc = "done" =>
        /\ Len(ord_colors) = Len(ord_arg)
        /\ \A k \in 1..Len(ord_arg) : CountIn(ord_colors, ord_arg[k]) = CountIn(ord_arg, ord_arg[k])
        /\ \A k \in 1..Len(ord_colors) : CountIn(ord_arg, ord_colors[k]) = CountIn(ord_colors, ord_colors[k])

\* a group with a duplicate and with two colours of one lightness has been
\* put into another order
C9_Witness ==
    /\ ord_pc = "done"
    /\ Len(ord_arg) = 4
    /\ ord_colors # ord_arg
    /\ \E i, j \in 1..Len(ord_arg) : i < j /\ ord_arg[i] = ord_arg[j]
    /\ \E i, j \in 1..Len(ord_arg) :
          ord_arg[i] # ord_arg[j] /\ Lightness(ord_arg[i]) = Lightness(ord_arg[j])

\* v is the lightness at rank r (0 is the brightest) of the group g
IsLightnessOfRank(g, v, r) ==
    /\ Cardinality({k \in 1..Len(g) : Lightness(g[k]) > v}) <= r
    /\ Cardinality({k \in 1..Len(g) : Lightness(g[k]) >= v}) > r

\* C10: for a group of even length n >= 2, after the call the colour at
\* position 2k has the lightness of rank k and the colour at position 2k + 1
\* the lightness of rank n/2 + k of the group (descending), for every
\* k < n/2, so that the colour at 2k is at least as light as the one at 2k + 1.
C10_InterleavedByRank ==
    (ord_pc = "done" /\ Len(ord_arg) >= 2 /\ Len(ord_arg) % 2 = 0) =>
        LET n == Len(ord_arg)
        IN  /\ Len(ord_colors) = n
            /\ \A k \in 0..((n \div 2) - 1) :
                  /\ IsLightnessOfRank(ord_arg, Lightness(At(ord_colors, 2 * k)), k)
                  /\ IsLightnessOfRank(ord_arg, Lightness(At(ord_colors, 2 * k + 1)), (n \div 2) + k)
                  /\ Lightness(At(ord_colors, 2 * k)) >= Lightness(At(ord_colors, 2 * k + 1))

\* a group of four colours passed darkest first, the middle two of one
\* lightness, has been interleaved
C10_Witness ==
    /\ ord_pc = "done"
    /\ Len(ord_arg) = 4
    /\ Lightness(ord_arg[1]) < Lightness(ord_arg[2])
    /\ Lightness(ord_arg[2]) = Lightness(ord_arg[3])
    /\ ord_arg[2] # ord_arg[3]
    /\ Lightness(ord_arg[3]) < Lightness(ord_arg[4])
    /\ ord_colors = <<ord_arg[4], ord_arg[3], ord_arg[2], ord_arg[1]>>

\* C11: a group of odd length, or of fewer than two colours, is after the
\* call what it was before: the same colours in the same order.
C11_OddOrShortUnchanged ==
    (ord_pc = "done" /\ (Len(ord_arg) < 2 \/ Len(ord_arg) % 2 = 1)) => ord_colors = ord_arg

\* a group of three colours passed darkest first has come back as it was
C11_Witness ==
    /\ ord_pc = "done"
    /\ Len(ord_arg) = 3
    /\ Lightness(ord_arg[1]) < Lightness(ord_arg[2])
    /\ Lightness(ord_arg[2]) < Lightness(ord_arg[3])
    /\ ord_colors = ord_arg

\* ------------------------------------------------------------------------
\* Claims about AppState::new (SpecNew)
\* ------------------------------------------------------------------------
GridIndex(c) == CHOOSE k \in 1..Len(candidate_srgb_grid) : candidate_srgb_grid[k] = c

\* C13: the pool built at startup holds exactly the grid colours whose Lab
\* lightness is in [20, 90], both ends included, in the order of the grid:
\* none outside the interval is kept and none inside it is dropped.
C13_PoolIsLightnessFilter ==
    new_pc = "done" =>
        /\ \A k \in 1..Len(candidate_pool) :
              /\ \E g \in 1..Len(candidate_srgb_grid) : candidate_srgb_grid[g] = candidate_pool[k]
              /\ Lightness(candidate_pool[k]) >= L_MIN * LabScale
              /\ Lightness(candidate_pool[k]) <= L_MAX * LabScale
        /\ \A g \in 1..Len(candidate_srgb_grid) :
              (/\ Lightness(candidate_srgb_grid[g]) >= L_MIN * LabScale
               /\ Lightness(candidate_srgb_grid[g]) <= L_MAX * LabScale)
                  => \E k \in 1..Len(candidate_pool) : candidate_pool[k] = candidate_srgb_grid[g]
        /\ \A j, k \in 1..Len(candidate_pool) :
              j < k => GridIndex(candidate_pool[j]) < GridIndex(candidate_pool[k])

\* the pool has been built: some of the grid is kept, some dropped at the
\* dark end and some at the light end
C13_Witness ==
    /\ new_pc = "done"
    /\ Len(candidate_pool) = 186
    /\ candidate_pool[1] = <<16, 16, 160>>
    /\ Lightness(candidate_srgb_grid[1]) < L_MIN * LabScale
    /\ Lightness(candidate_srgb_grid[Len(candidate_srgb_grid)]) > L_MAX * LabScale
    /\ Len(candidate_labs) = Len(candidate_pool)

\* ------------------------------------------------------------------------
\* Claims about AppState::regenerate (Spec)
\* ------------------------------------------------------------------------

\* C7: a regeneration asked for with sides outside [3,6] is rejected: it
\* does not go on to select colours, and sides is not replaced by a clamped
\* value.
C7_DegenerateRejected ==
    [][(app_pc = "start" /\ (sides < SIDES_MIN \/ sides > SIDES_MAX))
          => (app_pc' # "select" /\ sides' = sides)]_vars

Flatten(gs) ==
    [k \in 1..(Len(gs) * (IF gs = <<>> THEN 0 ELSE Len(gs[1]))) |->
        gs[((k - 1) \div Len(gs[1])) + 1][((k - 1) % Len(gs[1])) + 1]]

Distinct(s) == \A i, j \in 1..Len(s) : i # j => s[i] # s[j]

\* the step of regenerate from the selector's return to the partitioner's call
SelectorReturned == app_pc = "select" /\ app_pc' = "group"

\* C8: in a regenerate started with count >= 1 and a pool of at least sides
\* colours, count stays as it is if the selector returned count * sides
\* colours and otherwise becomes floor(achieved / sides), at least 1; the
\* partitioner is called with count * sides distinct colours, tag_count =
\* count and group_size = sides, and does not panic; and afterwards tags
\* holds count groups of sides colours each, no colour twice.
C8_CountGroupsOfSides ==
    /\ [][(SelectorReturned /\ count >= 1 /\ Len(candidate_pool) >= sides) =>
             /\ count' = IF Len(sel_colors) = count * sides THEN count
                         ELSE Max2(Len(sel_colors) \div sides, 1)
             /\ count' >= 1
             /\ tag_count' = count'
             /\ group_size' = sides
             /\ Len(colors') = tag_count' * group_size'
             /\ Len(labs') = Len(colors')
             /\ Distinct(colors')]_vars
    /\ []((count >= 1 /\ Len(candidate_pool) >= sides) =>
             /\ part_pc # "panic"
             /\ sel_pc # "panic"
             /\ app_pc # "panic"
             /\ app_pc \in {"render", "done"} =>
                   /\ Len(tags) = count
                   /\ \A g \in 1..Len(tags) : Len(tags[g]) = sides
                   /\ Distinct(Flatten(tags))
                   /\ \A g \in 1..Len(tags) : \A k \in 1..Len(tags[g]) :
                         \E i \in 1..Len(candidate_pool) : candidate_pool[i] = tags[g][k])

\* a regenerate has ended with two tags of three colours
C8_Witness ==
    /\ app_pc = "done"
    /\ count = 2
    /\ sides = 3
    /\ Len(tags) = 2
    /\ Len(textures) = 2

\* ------------------------------------------------------------------------
\* Claims about the partitioner (SpecPart)
\* ------------------------------------------------------------------------
PartPre == /\ Len(colors) = tag_count * group_size
           /\ tag_count >= 1
           /\ group_size >= 2

\* how many slots of the groups hold index x
RECURSIVE Occurrences(_, _)
Occurrences(gs, x) ==
    IF gs = <<>> THEN 0
    ELSE Cardinality({k \in 1..Len(Head(gs)) : Head(gs)[k] = x}) + Occurrences(Tail(gs), x)

ExactPartition(gs) ==
    /\ Len(gs) = tag_count
    /\ \A g \in 1..Len(gs) : Len(gs[g]) = group_size
    /\ \A x \in 0..(Len(colors) - 1) : Occurrences(gs, x) = 1

\* C1: with tag_count >= 1, group_size >= 2 and tag_count * group_size
\* colours the call never panics; after the greedy construction and after
\* every refinement iteration the groups are tag_count groups of group_size
\* indices in which every input index occurs exactly once; the value
\* returned is those groups with every index replaced by its colour.
C1_ExactPartition ==
    PartPre =>
        /\ part_pc # "panic"
        /\ part_pc \in {"refine", "done"} => ExactPartition(groups)
        /\ part_pc = "done" =>
              /\ Len(part_ret) = tag_count
              /\ \A g \in 1..Len(part_ret) :
                    /\ Len(part_ret[g]) = group_size
                    /\ \A k \in 1..group_size :
                          part_ret[g][k] = At(colors, groups[g][k])

\* the first group of the greedy construction holds the farthest pair; a
\* first group without it shows a swap that was kept
FirstGroupChanged ==
    LET fp == FarthestPair(Range0(Len(colors)), dm, Len(colors))
    IN  \E k \in 1..2 : \A m \in 1..Len(groups[1]) : groups[1][m] # fp[k]

C1_Witness ==
    /\ PartPre
    /\ part_pc = "done"
    /\ tag_count = 3
    /\ it = MaxIters
    /\ FirstGroupChanged

\* C2: a call whose colour count differs from tag_count * group_size stops
\* at the assertion: it builds no distance matrix and no group, and it
\* never returns.
C2_MismatchFailsFast ==
    Len(colors) # tag_count * group_size =>
        /\ part_pc \in {"entry", "panic"}
        /\ dm = <<>>
        /\ remaining = <<>>
        /\ groups = <<>>
        /\ group = <<>>
        /\ part_ret = <<>>

C2_Witness ==
    /\ part_pc = "panic"
    /\ Len(colors) = tag_count * group_size + 1
    /\ tag_count = 2
    /\ group_size = 2

RECURSIVE TotalScore(_, _, _)
TotalScore(d, n, gs) ==
    IF gs = <<>> THEN 0 ELSE AddF(group_min(d, n, Head(gs)), TotalScore(d, n, Tail(gs)))

\* the groups a and b differ in slots ia of group i and jb of group j only,
\* which hold each other's old value
IsSwapOf(a, b, i, ia, j, jb) ==
    /\ \A g \in 1..Len(a) : \A k \in 1..Len(a[g]) :
          <<g, k>> \notin {<<i, ia>>, <<j, jb>>} => b[g][k] = a[g][k]
    /\ b[i][ia] = a[j][jb]
    /\ b[j][jb] = a[i][ia]

RefineIteration == PartPre /\ part_pc = "refine" /\ part_pc' = "refine"

Dist(a, b) == At(dm, a * Len(colors) + b)

\* the least distance from c to a member of g
MinDistTo(g, c) ==
    CHOOSE m \in {Dist(x, c) : x \in Members(g)} : \A x \in Members(g) : m <= Dist(x, c)

\* remaining, the group under construction and the finished groups hold
\* every index once
AssignedOnce ==
    \A x \in 0..(Len(colors) - 1) :
        Cardinality({k \in 1..Len(remaining) : remaining[k] = x})
          + Cardinality({k \in 1..Len(group) : group[k] = x})
          + Occurrences(groups, x) = 1

\* C18: in the greedy phase a new group starts with two unassigned colours
\* whose distance is the largest among the pairs of unassigned colours, every
\* further member is an unassigned colour whose least distance to the
\* members of the group is the largest, and a colour leaves the unassigned
\* ones exactly when it enters a group.
C18_GreedyFarthestThenMaximin ==
    /\ [][(part_pc = "greedy" /\ part_pc' = "fill") =>
             /\ Len(group') = 2
             /\ group'[1] # group'[2]
             /\ Members(group') \subseteq Members(remaining)
             /\ \A x, y \in Members(remaining) :
                   x # y => Dist(x, y) <= Dist(group'[1], group'[2])
             /\ remaining' = SelectSeq(remaining, LAMBDA x : x \notin Members(group'))]_vars
    /\ [][(part_pc = "fill" /\ part_pc' = "fill") =>
             /\ Len(group') = Len(group) + 1
             /\ SubSeq(group', 1, Len(group)) = group
             /\ group'[Len(group')] \in Members(remaining)
             /\ \A x \in Members(remaining) :
                   MinDistTo(group, x) <= MinDistTo(group, group'[Len(group')])
             /\ remaining' = SelectSeq(remaining, LAMBDA x : x # group'[Len(group')])]_vars
    /\ [][(part_pc = "fill" /\ part_pc' = "greedy") =>
             (groups' = Append(groups, group) /\ remaining' = remaining)]_vars
    /\ [](part_pc \in {"greedy", "fill"} => AssignedOnce)

\* a third member has been added that was not the first unassigned colour,
\* another unassigned colour being nearer to the group
C18_Witness ==
    /\ part_pc = "fill"
    /\ Len(group) = 3
    /\ \E x \in Members(remaining) :
          /\ x < group[3]
          /\ MinDistTo(SubSeq(group, 1, 2), x) < MinDistTo(SubSeq(group, 1, 2), group[3])

\* C19: called with group_size = 1 and tag_count colours, tag_count >= 1, the
\* partitioner does not panic and returns tag_count groups of one colour
\* each, every colour in one group.
C19_SingletonGroups ==
    (group_size = 1 /\ tag_count >= 1 /\ Len(colors) = tag_count) =>
        /\ part_pc # "panic"
        /\ part_pc = "done" =>
              /\ Len(part_ret) = tag_count
              /\ \A g \in 1..Len(part_ret) : Len(part_ret[g]) = 1
              /\ \A x \in 1..Len(colors) :
                    Cardinality({g \in 1..Len(part_ret) : part_ret[g] = <<colors[x]>>}) = 1

\* ------------------------------------------------------------------------
\* Claims about the blur jobs (SpecBlur)
\* ------------------------------------------------------------------------

\* the thread started last
LastThread == Len(blur_threads)

\* C24: a slot of right_blurred_textures that is filled holds a result of
\* the blur job started last, the one of its own index; and a slot is filled
\* only by the receive loop, from a message of the current job's thread
\* whose index is below the number of slots, whatever the threads of
\* earlier jobs do between the steps of the UI thread.
C24_SlotsFilledByCurrentJob ==
    /\ [](\A i \in 1..Len(right_blurred_textures) :
             right_blurred_textures[i] # <<>> =>
                /\ blur_from[i] = LastThread
                /\ blur_threads[LastThread].job_id = blur_job_id
                /\ right_blurred_textures[i][1].name = <<"right_first_blurred", i - 1>>
                /\ right_blurred_textures[i][1].image =
                      BlurredImage(blur_threads[LastThread], i - 1))
    /\ [][\A i \in 1..Len(right_blurred_textures') :
             (/\ right_blurred_textures'[i] # <<>>
              /\ \/ i > Len(right_blurred_textures)
                 \/ right_blurred_textures[i] # right_blurred_textures'[i]) =>
                /\ ui_pc = "recv"
                /\ blurred_rx = <<LastThread>>
                /\ blur_chan[LastThread] # <<>>
                /\ Head(blur_chan[LastThread])[1] = blur_job_id
                /\ Head(blur_chan[LastThread])[2] = i - 1
                /\ i - 1 < Len(right_blurred_textures)
                /\ Len(right_blurred_textures') = Len(right_blurred_textures)
                /\ blur_threads' = blur_threads]_vars

\* a second job has been started at another tile width while the thread of
\* the first is still in its loop, and a result of the second job is in its
\* slot while other slots wait
C24_Witness ==
    /\ Len(blur_threads) >= 2
    /\ blur_threads[1].next > 0
    /\ blur_threads[1].next < Len(BLUR_LEVELS)
    /\ blur_threads[1].blur_dst_w # blur_threads[LastThread].blur_dst_w
    /\ \E i \in 1..Len(right_blurred_textures) : right_blurred_textures[i] # <<>>
    /\ \E i \in 1..Len(right_blurred_textures) : right_blurred_textures[i] = <<>>

====
